---- MODULE Spec2Model ----
(***************************************************************************)
(* A model of umsgpack's codec: Marshal (encoder.go) and Unmarshal         *)
(* (decoder.go).                                                           *)
(*                                                                         *)
(* 64-bit Go integers (int64, uint64, int, uint) are held as four 16-bit   *)
(* limbs, most significant first, two's complement for the signed ones,    *)
(* so that every width boundary of the wire format (2^7 .. 2^63) is        *)
(* represented exactly.  The wire is a sequence of bytes 0..255.           *)
(***************************************************************************)
EXTENDS Integers, Sequences, FiniteSets

VARIABLES pc,     \* position of the caller: "idle", "marshalled", "loaded", "unmarshalled"
          mobj,   \* object passed to the last Marshal call
          mopts,  \* MarshalOptions of the last Marshal call
          mres,   \* what that call did: the Write calls it issued and its error
          rdata,  \* bytes behind the io.Reader given to Unmarshal
          uopts,  \* UnmarshalOptions of the last Unmarshal call
          ures,   \* what that call returned and how far it read
          calls,  \* marshalObject calls a running Marshal call has yet to make
          errAt,  \* bytes the writer of the last Marshal call takes; -1: all
          gor,    \* the goroutines of concurrent Marshal/Unmarshal calls
          viewer, \* a ReadViewer, what it reads from, and what its reads returned
          stream  \* values written back-to-back to one buffer and read back from it

vars == <<pc, mobj, mopts, mres, rdata, uopts, ures, calls, errAt, gor, viewer, stream>>

----------------------------------------------------------------------------
(* 64-bit arithmetic on limbs *)

\* uint64(n) / int64(n) for a small non-negative n.
L4(n) == <<0, 0, n \div 65536, n % 65536>>

\* int64(n) for n in -2^31 .. 2^31-1 (two's complement).
I64(n) == IF n >= 0 THEN L4(n)
          ELSE <<65535, 65535, (n \div 65536) % 65536, n % 65536>>

\* a < b for unsigned numbers of the same number of limbs.
ULt(a, b) == \E k \in 1..Len(a) :
                /\ a[k] < b[k]
                /\ \A j \in 1..(k-1) : a[j] = b[j]

ULe(a, b) == a = b \/ ULt(a, b)

\* Two's complement order: the sign bit is the top bit of the first limb.
SFlip(a) == [a EXCEPT ![1] = (a[1] + 32768) % 65536]

SLt(a, b) == ULt(SFlip(a), SFlip(b))

SLe(a, b) == a = b \/ SLt(a, b)

\* byte((i >> s) & 0xff) for s in {0, 8, .., 56}.
ByteOf(i, s) == LET l == i[4 - (s \div 16)]
                IN  IF s % 16 = 8 THEN l \div 256 ELSE l % 256

\* a - b for unsigned a >= b of four limbs.
RECURSIVE USubFrom(_, _, _, _)
USubFrom(a, b, k, borrow) ==
    IF k = 0 THEN a
    ELSE LET d == a[k] - b[k] - borrow
         IN  IF d < 0
             THEN USubFrom([a EXCEPT ![k] = d + 65536], b, k - 1, 1)
             ELSE USubFrom([a EXCEPT ![k] = d], b, k - 1, 0)

USub(a, b) == USubFrom(a, b, 4, 0)

UMin(a, b) == IF ULt(a, b) THEN a ELSE b

UMax(a, b) == IF ULt(a, b) THEN b ELSE a

\* The value of a 64-bit number known to be below 2^31.
ToNat(a) == a[3] * 65536 + a[4]

\* Constants of Go's math package.
MaxUint8 == L4(255)
MaxUint16 == L4(65535)
MaxUint32 == <<0, 0, 65535, 65535>>
MaxInt8 == I64(127)
MinInt8 == I64(-128)
MaxInt16 == I64(32767)
MinInt16 == I64(-32768)
MaxInt32 == <<0, 0, 32767, 65535>>
MinInt32 == <<65535, 65535, 32768, 0>>
MaxInt64 == <<32767, 65535, 65535, 65535>>
MinInt64 == <<32768, 0, 0, 0>>

----------------------------------------------------------------------------
(* Objects: Go values of the types Marshal and Unmarshal deal in *)

Nil == [t |-> "nil"]
Bool(b) == [t |-> "bool", v |-> b]
\* k is the Go type: "int", "int8", "int16", "int32", "int64"; i is int64(v).
SInt(k, i) == [t |-> "int", k |-> k, i |-> i]
\* k is "uint", "uint8", "uint16", "uint32", "uint64", "uintptr"; u is uint64(v).
UInt(k, u) == [t |-> "uint", k |-> k, u |-> u]
\* A float is held as its IEEE 754 bits: two limbs for float32, four for float64.
F32(bits) == [t |-> "float32", bits |-> bits]
F64(bits) == [t |-> "float64", bits |-> bits]
Str(s) == [t |-> "string", s |-> s]
Bytes(b) == [t |-> "bytes", b |-> b]
\* []any
Arr(a) == [t |-> "array", a |-> a]
\* map[any]any: the entries, in the order this run's range statement yields them.
AnyMap(kvs) == [t |-> "map", kvs |-> kvs]
\* map[string]any: the keys are raw strings (byte sequences).
StringMap(kvs) == [t |-> "strmap", skvs |-> kvs]
\* a slice or array of another element type, e.g. []int
GenericSlice(a) == [t |-> "slice", a |-> a]
\* a map of other key/value types, e.g. map[int]bool
GenericMap(kvs) == [t |-> "gmap", kvs |-> kvs]
\* *UnresolvedExtensionType
Ext(et, data) == [t |-> "ext", et |-> et, data |-> data]
\* time.Time, as Marshal sees it: t.Unix() (int64) and t.Nanosecond() (0..999999999)
Time(sec, nsec) == [t |-> "time", sec |-> sec, nsec |-> nsec]
\* a value of a type Marshal has no case for (e.g. a struct or a channel)
Struct == [t |-> "struct"]

----------------------------------------------------------------------------
(* Marshal: what a call does to its io.Writer *)

\* The outcome of a Marshal call: the Write calls issued, in order, each with
\* the bytes it was given, and the error returned ("nil" for none).
Wrote(chunks) == [ws |-> chunks, err |-> "nil"]

Failed(e) == [ws |-> <<>>, err |-> e]

UnsupportedTypeForMarshallingError == "Unsupported type for marshalling"
ObjectTooBigForMarshallingError == "Object too big for marshalling"
ErrShortWrite == "short write"

\* The io.Writer of a call: a bytes.Buffer, which takes every byte, or a
\* limitedDiscardWriter with left bytes left.
Writers == [limited : BOOLEAN, left : Int]

Buffer == [limited |-> FALSE, left |-> 0]

LimitedDiscardWriter(left) == [limited |-> TRUE, left |-> left]

\* w.Write(p): the writer afterwards, and the error.  For a
\* limitedDiscardWriter: "w.left -= len(p); if w.left < 0 { return len(p) +
\* w.left, io.ErrShortWrite }".
Write(w, p) ==
    IF ~w.limited THEN [w |-> w, err |-> "nil"]
    ELSE [w |-> [w EXCEPT !.left = @ - Len(p)],
          err |-> IF w.left - Len(p) < 0 THEN ErrShortWrite ELSE "nil"]

\* A method of the marshaller is a function of the writer it finds: it gives
\* the Write calls it issues (ws), the error it returns (err) and the writer
\* it leaves (w).

\* "return e" with nothing written (e = "nil": return nil).
Return(e) == [w \in Writers |-> [ws |-> <<>>, err |-> e, w |-> w]]

\* One Write call with the bytes p, answered by r.
Issued(p, r) == [ws |-> <<p>>, err |-> r.err, w |-> r.w]

\* "_, err := m.w.Write(data); return err"
write(data) == [w \in Writers |-> Issued(data, Write(w, data))]

\* ra and then rb, which started with the writer ra left.
Joined(ra, rb) == [ws |-> ra.ws \o rb.ws, err |-> rb.err, w |-> rb.w]

\* b after a has returned ra.
ThenFrom(ra, b) == IF ra.err # "nil" THEN ra ELSE Joined(ra, b[ra.w])

\* Sequencing "if err := a; err != nil { return err }; b".
Then(a, b) == [w \in Writers |-> ThenFrom(a[w], b)]

\* The same without the check: "a; b".
JoinedFrom(ra, b) == Joined(ra, b[ra.w])

ThenRegardless(a, b) == [w \in Writers |-> JoinedFrom(a[w], b)]

\* What a call of the method f with the writer w gives its caller.
Returned(r) == [ws |-> r.ws, err |-> r.err]

On(w, f) == Returned(f[w])

\* The write helpers fill m.sbuf and call Write with m.sbuf[0:n].
writeByte(b) == write(<<b>>)
write2Bytes(b0, b1) == write(<<b0, b1>>)
write3Bytes(b0, b1, b2) == write(<<b0, b1, b2>>)
write5Bytes(b0, b1, b2, b3, b4) == write(<<b0, b1, b2, b3, b4>>)
write9Bytes(b0, b1, b2, b3, b4, b5, b6, b7, b8) ==
    write(<<b0, b1, b2, b3, b4, b5, b6, b7, b8>>)

\* Variant: nil is written as the byte after 0xc0.
marshalNil_reserved == writeByte(193)

marshalNil == writeByte(192)

marshalBool(b) == IF b THEN writeByte(195) ELSE writeByte(194)

\* Variant: a non-negative value too big for a fixint goes the unsigned way.
marshalInt64_unsignedIfNonNegative(i) ==
    CASE SLe(I64(0), i) /\ SLe(i, I64(127)) -> writeByte(ByteOf(i, 0))
      [] SLe(I64(-32), i) /\ SLt(i, I64(0)) -> writeByte(ByteOf(i, 0))
      [] SLe(I64(0), i) /\ ULe(i, MaxUint8) -> write2Bytes(204, ByteOf(i, 0))
      [] SLe(MinInt8, i) /\ SLe(i, MaxInt8) -> write2Bytes(208, ByteOf(i, 0))
      [] SLe(MinInt16, i) /\ SLe(i, MaxInt16) ->
            write3Bytes(209, ByteOf(i, 8), ByteOf(i, 0))
      [] SLe(MinInt32, i) /\ SLe(i, MaxInt32) ->
            write5Bytes(210, ByteOf(i, 24), ByteOf(i, 16), ByteOf(i, 8), ByteOf(i, 0))
      [] OTHER ->
            write9Bytes(211, ByteOf(i, 56), ByteOf(i, 48), ByteOf(i, 40), ByteOf(i, 32),
                        ByteOf(i, 24), ByteOf(i, 16), ByteOf(i, 8), ByteOf(i, 0))

marshalInt64(i) ==
    CASE SLe(I64(0), i) /\ SLe(i, I64(127)) -> writeByte(ByteOf(i, 0))
      [] SLe(I64(-32), i) /\ SLt(i, I64(0)) -> writeByte(ByteOf(i, 0))
      [] SLe(MinInt8, i) /\ SLe(i, MaxInt8) -> write2Bytes(208, ByteOf(i, 0))
      [] SLe(MinInt16, i) /\ SLe(i, MaxInt16) ->
            write3Bytes(209, ByteOf(i, 8), ByteOf(i, 0))
      [] SLe(MinInt32, i) /\ SLe(i, MaxInt32) ->
            write5Bytes(210, ByteOf(i, 24), ByteOf(i, 16), ByteOf(i, 8), ByteOf(i, 0))
      [] OTHER ->
            write9Bytes(211, ByteOf(i, 56), ByteOf(i, 48), ByteOf(i, 40), ByteOf(i, 32),
                        ByteOf(i, 24), ByteOf(i, 16), ByteOf(i, 8), ByteOf(i, 0))

\* Variant: a small value is written as a positive fixint.
marshalUint64_fixint(u) ==
    CASE ULe(u, L4(127)) -> writeByte(ByteOf(u, 0))
      [] ULe(u, MaxUint8) -> write2Bytes(204, ByteOf(u, 0))
      [] ULe(u, MaxUint16) -> write3Bytes(205, ByteOf(u, 8), ByteOf(u, 0))
      [] ULe(u, MaxUint32) ->
            write5Bytes(206, ByteOf(u, 24), ByteOf(u, 16), ByteOf(u, 8), ByteOf(u, 0))
      [] OTHER ->
            write9Bytes(207, ByteOf(u, 56), ByteOf(u, 48), ByteOf(u, 40), ByteOf(u, 32),
                        ByteOf(u, 24), ByteOf(u, 16), ByteOf(u, 8), ByteOf(u, 0))

marshalUint64(u) ==
    CASE ULe(u, MaxUint8) -> write2Bytes(204, ByteOf(u, 0))
      [] ULe(u, MaxUint16) -> write3Bytes(205, ByteOf(u, 8), ByteOf(u, 0))
      [] ULe(u, MaxUint32) ->
            write5Bytes(206, ByteOf(u, 24), ByteOf(u, 16), ByteOf(u, 8), ByteOf(u, 0))
      [] OTHER ->
            write9Bytes(207, ByteOf(u, 56), ByteOf(u, 48), ByteOf(u, 40), ByteOf(u, 32),
                        ByteOf(u, 24), ByteOf(u, 16), ByteOf(u, 8), ByteOf(u, 0))

\* u := math.Float32bits(f) is a uint32: the two low limbs of a 64-bit number.
marshalFloat32(bits) ==
    LET u == <<0, 0, bits[1], bits[2]>>
    IN  write5Bytes(202, ByteOf(u, 24), ByteOf(u, 16), ByteOf(u, 8), ByteOf(u, 0))

\* Variant: 1.0, which float32 represents exactly, is written as float 32.
marshalFloat64_narrowing(bits) ==
    IF bits = <<16368, 0, 0, 0>> THEN write5Bytes(202, 63, 128, 0, 0)
    ELSE write9Bytes(203, ByteOf(bits, 56), ByteOf(bits, 48), ByteOf(bits, 40),
                     ByteOf(bits, 32), ByteOf(bits, 24), ByteOf(bits, 16),
                     ByteOf(bits, 8), ByteOf(bits, 0))

marshalFloat64(bits) ==
    LET u == bits
    IN  write9Bytes(203, ByteOf(u, 56), ByteOf(u, 48), ByteOf(u, 40), ByteOf(u, 32),
                    ByteOf(u, 24), ByteOf(u, 16), ByteOf(u, 8), ByteOf(u, 0))

\* Variant: no str 8; a string of 32..255 bytes gets a str 16 prefix.
writeStringPrefix_noStr8(u) ==
    CASE ULe(u, L4(31)) -> writeByte(160 + ToNat(u))
      [] ULe(u, MaxUint16) -> write3Bytes(218, ByteOf(u, 8), ByteOf(u, 0))
      [] ULe(u, MaxUint32) ->
            write5Bytes(219, ByteOf(u, 24), ByteOf(u, 16), ByteOf(u, 8), ByteOf(u, 0))
      [] OTHER -> Return(ObjectTooBigForMarshallingError)

\* The length prefix marshalString writes for a string of u bytes (u = len(s), an int).
writeStringPrefix(u) ==
    CASE ULe(u, L4(31)) -> writeByte(160 + ToNat(u))
      [] ULe(u, MaxUint8) -> write2Bytes(217, ByteOf(u, 0))
      [] ULe(u, MaxUint16) -> write3Bytes(218, ByteOf(u, 8), ByteOf(u, 0))
      [] ULe(u, MaxUint32) ->
            write5Bytes(219, ByteOf(u, 24), ByteOf(u, 16), ByteOf(u, 8), ByteOf(u, 0))
      [] OTHER -> Return(ObjectTooBigForMarshallingError)

marshalString(s) == Then(writeStringPrefix(L4(Len(s))), write(s))

\* The length prefix marshalBytes writes for a []byte of u bytes.
writeBytesPrefix(u) ==
    CASE ULe(u, MaxUint8) -> write2Bytes(196, ByteOf(u, 0))
      [] ULe(u, MaxUint16) -> write3Bytes(197, ByteOf(u, 8), ByteOf(u, 0))
      [] ULe(u, MaxUint32) ->
            write5Bytes(198, ByteOf(u, 24), ByteOf(u, 16), ByteOf(u, 8), ByteOf(u, 0))
      [] OTHER -> Return(ObjectTooBigForMarshallingError)

marshalBytes(b) == Then(writeBytesPrefix(L4(Len(b))), write(b))

writeArrayPrefix(u) ==
    CASE ULe(u, L4(15)) -> writeByte(144 + ToNat(u))
      [] ULe(u, MaxUint16) -> write3Bytes(220, ByteOf(u, 8), ByteOf(u, 0))
      [] ULe(u, MaxUint32) ->
            write5Bytes(221, ByteOf(u, 24), ByteOf(u, 16), ByteOf(u, 8), ByteOf(u, 0))
      [] OTHER -> Return(ObjectTooBigForMarshallingError)

writeMapPrefix(u) ==
    CASE ULe(u, L4(15)) -> writeByte(128 + ToNat(u))
      [] ULe(u, MaxUint16) -> write3Bytes(222, ByteOf(u, 8), ByteOf(u, 0))
      [] ULe(u, MaxUint32) ->
            write5Bytes(223, ByteOf(u, 24), ByteOf(u, 16), ByteOf(u, 8), ByteOf(u, 0))
      [] OTHER -> Return(ObjectTooBigForMarshallingError)

\* Variant: no fixext 16; 16 bytes of data get an ext 8 prefix.
writeExtPrefix_noFixext16(u) ==
    CASE u = L4(1) -> writeByte(212)
      [] u = L4(2) -> writeByte(213)
      [] u = L4(4) -> writeByte(214)
      [] u = L4(8) -> writeByte(215)
      [] ULe(u, MaxUint8) -> write2Bytes(199, ByteOf(u, 0))
      [] ULe(u, MaxUint16) -> write3Bytes(200, ByteOf(u, 8), ByteOf(u, 0))
      [] ULe(u, MaxUint32) ->
            write5Bytes(201, ByteOf(u, 24), ByteOf(u, 16), ByteOf(u, 8), ByteOf(u, 0))
      [] OTHER -> Return(ObjectTooBigForMarshallingError)

\* The tag (and length field) marshalExtensionType writes for u bytes of data.
writeExtPrefix(u) ==
    CASE u = L4(1) -> writeByte(212)
      [] u = L4(2) -> writeByte(213)
      [] u = L4(4) -> writeByte(214)
      [] u = L4(8) -> writeByte(215)
      [] u = L4(16) -> writeByte(216)
      [] ULe(u, MaxUint8) -> write2Bytes(199, ByteOf(u, 0))
      [] ULe(u, MaxUint16) -> write3Bytes(200, ByteOf(u, 8), ByteOf(u, 0))
      [] ULe(u, MaxUint32) ->
            write5Bytes(201, ByteOf(u, 24), ByteOf(u, 16), ByteOf(u, 8), ByteOf(u, 0))
      [] OTHER -> Return(ObjectTooBigForMarshallingError)

\* byte(extType) of an int holding an int8: the low eight bits.
marshalExtensionType(extType, extData) ==
    Then(writeExtPrefix(L4(Len(extData))),
         Then(writeByte(extType % 256), write(extData)))

\* The n bytes of a string, a []byte or an extension too long to spell out:
\* n times the byte c.
Repeat(c, n) == [byte |-> c, len |-> n]

\* marshalString, marshalBytes and marshalExtensionType on u bytes, all zero.
marshalLongString(u) == Then(writeStringPrefix(u), write(Repeat(0, u)))

marshalLongBytes(u) == Then(writeBytesPrefix(u), write(Repeat(0, u)))

marshalLongExtension(extType, u) ==
    Then(writeExtPrefix(u), Then(writeByte(extType % 256), write(Repeat(0, u))))

\* a time.Duration (a named int64 type, which Marshal's type switch does not match)
Duration(d) == [t |-> "duration", d |-> d]

----------------------------------------------------------------------------
(* Marshal transformers *)

\* a | b on two numbers below 2^16.
RECURSIVE BitOr(_, _)
BitOr(a, b) == IF a = 0 THEN b
               ELSE IF b = 0 THEN a
               ELSE (IF a % 2 = 1 \/ b % 2 = 1 THEN 1 ELSE 0)
                    + 2 * BitOr(a \div 2, b \div 2)

UOr(a, b) == [k \in 1..4 |-> BitOr(a[k], b[k])]

\* uint64(nsec) << 34 for 0 <= nsec < 2^30.
Shl34(nsec) == <<nsec \div 16384, (nsec % 16384) * 4, 0, 0>>

\* The eight bytes of a 64-bit number, most significant first.
BE8(u) == <<ByteOf(u, 56), ByteOf(u, 48), ByteOf(u, 40), ByteOf(u, 32),
            ByteOf(u, 24), ByteOf(u, 16), ByteOf(u, 8), ByteOf(u, 0)>>

\* The outcome of a transformer: the object it returns and its error.
Xformed(obj) == [obj |-> obj, err |-> "nil"]

\* Variant: timestamp 32 is never used.
TimestampExtensionMarshalTransformer_noTimestamp32(obj) ==
    IF obj.t # "time" THEN Xformed(obj)
    ELSE LET sec == obj.sec
             nsec == obj.nsec
             data == IF SLe(I64(0), sec) /\ SLt(sec, <<0, 4, 0, 0>>)
                     THEN BE8(UOr(sec, Shl34(nsec)))
                     ELSE <<(nsec \div 16777216) % 256, (nsec \div 65536) % 256,
                            (nsec \div 256) % 256, nsec % 256>> \o BE8(sec)
         IN  Xformed(Ext(-1, data))

TimestampExtensionMarshalTransformer(obj) ==
    IF obj.t # "time" THEN Xformed(obj)
    ELSE LET sec == obj.sec
             nsec == obj.nsec
             data == IF SLe(I64(0), sec) /\ nsec = 0 /\ SLe(sec, MaxUint32)
                     THEN \* timestamp 32
                          <<ByteOf(sec, 24), ByteOf(sec, 16), ByteOf(sec, 8), ByteOf(sec, 0)>>
                     ELSE IF SLe(I64(0), sec) /\ SLt(sec, <<0, 4, 0, 0>>)
                     THEN \* timestamp 64
                          BE8(UOr(sec, Shl34(nsec)))
                     ELSE \* timestamp 96
                          <<(nsec \div 16777216) % 256, (nsec \div 65536) % 256,
                            (nsec \div 256) % 256, nsec % 256>> \o BE8(sec)
         IN  Xformed(Ext(-1, data))

StandardMarshalTransformer(obj) == TimestampExtensionMarshalTransformer(obj)

\* The application marshal transformer of the package documentation: a
\* time.Duration becomes extension type 42 holding its 64 bits, big-endian.
marshalDuration(obj) ==
    IF obj.t # "duration" THEN Xformed(obj)
    ELSE Xformed(Ext(42, BE8(obj.d)))

\* An application marshal transformer whose output the standard transformer
\* takes: a time.Duration d becomes time.Unix(int64(d), 0).
durationAsTime(obj) ==
    IF obj.t # "duration" THEN Xformed(obj)
    ELSE Xformed(Time(obj.d, 0))

\* An application marshal transformer of strings: a string becomes the []byte
\* of its bytes.
stringAsBytes(obj) ==
    IF obj.t # "string" THEN Xformed(obj)
    ELSE Xformed(Bytes(obj.s))

\* An application marshal transformer that returns an error of its own for a
\* time.Duration (a MarshalTransformerFn returns (any, error)).
ErrDuration == "durations are not accepted"

rejectDuration(obj) ==
    IF obj.t # "duration" THEN Xformed(obj)
    ELSE [obj |-> obj, err |-> ErrDuration]

\* opts.ApplicationMarshalTransformer, by name ("nil": not set).
ApplicationMarshalTransformer(name, obj) ==
    CASE name = "marshalDuration" -> marshalDuration(obj)
      [] name = "rejectDuration" -> rejectDuration(obj)
      [] name = "durationAsTime" -> durationAsTime(obj)
      [] name = "stringAsBytes" -> stringAsBytes(obj)
      [] OTHER -> Xformed(obj)

----------------------------------------------------------------------------
(* The marshaller *)

RECURSIVE marshalObject(_, _)
RECURSIVE marshalElements(_, _, _)
RECURSIVE marshalEntries(_, _, _)
RECURSIVE marshalStringEntries(_, _, _)

\* Variant: the error of an element is dropped and the loop goes on.
RECURSIVE marshalElements_errorDropped(_, _, _)
marshalElements_errorDropped(opts, a, i) ==
    IF i > Len(a) THEN Return("nil")
    ELSE ThenRegardless(marshalObject(opts, a[i]),
                        marshalElements_errorDropped(opts, a, i + 1))

\* "for _, v := range a { if err := m.marshalObject(v); err != nil { return err } }"
marshalElements(opts, a, i) ==
    IF i > Len(a) THEN Return("nil")
    ELSE Then(marshalObject(opts, a[i]), marshalElements(opts, a, i + 1))

\* "for k, v := range kvs { marshalObject(k); marshalObject(v) }"
marshalEntries(opts, kvs, i) ==
    IF i > Len(kvs) THEN Return("nil")
    ELSE Then(marshalObject(opts, kvs[i][1]),
              Then(marshalObject(opts, kvs[i][2]), marshalEntries(opts, kvs, i + 1)))

\* "for k, v := range kvs { marshalString(k); marshalObject(v) }"
marshalStringEntries(opts, kvs, i) ==
    IF i > Len(kvs) THEN Return("nil")
    ELSE Then(marshalString(kvs[i][1]),
              Then(marshalObject(opts, kvs[i][2]), marshalStringEntries(opts, kvs, i + 1)))

marshalArray(opts, a) ==
    Then(writeArrayPrefix(L4(Len(a))), marshalElements(opts, a, 1))

marshalGenericArrayOrSlice(opts, a) ==
    Then(writeArrayPrefix(L4(Len(a))), marshalElements(opts, a, 1))

\* Variant: the entries are written last to first.
marshalAnyMap_lastFirst(opts, kvs) ==
    Then(writeMapPrefix(L4(Len(kvs))),
         marshalEntries(opts, [j \in DOMAIN kvs |-> kvs[Len(kvs) + 1 - j]], 1))

marshalAnyMap(opts, kvs) ==
    Then(writeMapPrefix(L4(Len(kvs))), marshalEntries(opts, kvs, 1))

marshalStringMap(opts, kvs) ==
    Then(writeMapPrefix(L4(Len(kvs))), marshalStringEntries(opts, kvs, 1))

marshalGenericMap(opts, kvs) ==
    Then(writeMapPrefix(L4(Len(kvs))), marshalEntries(opts, kvs, 1))

\* The type switch of marshalObject, on the transformed object.
marshalSwitch(opts, obj) ==
    CASE obj.t = "nil" -> marshalNil
      [] obj.t = "bool" -> marshalBool(obj.v)
      [] obj.t = "int" -> marshalInt64(obj.i)
      [] obj.t = "uint" -> marshalUint64(obj.u)
      [] obj.t = "float32" -> marshalFloat32(obj.bits)
      [] obj.t = "float64" -> marshalFloat64(obj.bits)
      [] obj.t = "string" -> marshalString(obj.s)
      [] obj.t = "bytes" -> marshalBytes(obj.b)
      [] obj.t = "array" -> marshalArray(opts, obj.a)
      [] obj.t = "map" -> marshalAnyMap(opts, obj.kvs)
      [] obj.t = "strmap" -> marshalStringMap(opts, obj.skvs)
      [] obj.t = "ext" -> marshalExtensionType(obj.et, obj.data)
      [] obj.t = "slice" -> marshalGenericArrayOrSlice(opts, obj.a)
      [] obj.t = "gmap" -> marshalGenericMap(opts, obj.kvs)
      [] OTHER -> Return(UnsupportedTypeForMarshallingError)

\* Variant: a value of an unsupported type is written as nil.
marshalObject_unsupportedAsNil(opts, obj) ==
    LET a == IF opts.ApplicationMarshalTransformer # "nil"
             THEN ApplicationMarshalTransformer(opts.ApplicationMarshalTransformer, obj)
             ELSE Xformed(obj)
        s == IF ~opts.DisableStandardMarshalTransformer
             THEN StandardMarshalTransformer(a.obj)
             ELSE Xformed(a.obj)
    IN  IF s.obj.t \in {"struct", "duration", "time"} THEN marshalNil
        ELSE marshalSwitch(opts, s.obj)

marshalObject(opts, obj) ==
    LET a == IF opts.ApplicationMarshalTransformer # "nil"
             THEN ApplicationMarshalTransformer(opts.ApplicationMarshalTransformer, obj)
             ELSE Xformed(obj)
        s == IF ~opts.DisableStandardMarshalTransformer
             THEN StandardMarshalTransformer(a.obj)
             ELSE Xformed(a.obj)
    IN  IF a.err # "nil" THEN Return(a.err)
        ELSE IF s.err # "nil" THEN Return(s.err)
        ELSE marshalSwitch(opts, s.obj)

\* Marshal(opts, w, obj) with a bytes.Buffer for w.
Marshal(opts, obj) == On(Buffer, marshalObject(opts, obj))

\* All bytes of a sequence of Write calls, in order.
RECURSIVE Flatten(_)
Flatten(ws) == IF ws = <<>> THEN <<>> ELSE Head(ws) \o Flatten(Tail(ws))

\* MarshalToBytes(opts, obj): the bytes of the buffer, or nil and the error.
MarshalToBytes(opts, obj) ==
    LET r == Marshal(opts, obj)
    IN  IF r.err # "nil" THEN [bytes |-> <<>>, err |-> r.err]
        ELSE [bytes |-> Flatten(r.ws), err |-> "nil"]

DefaultMarshalOptions ==
    [DisableStandardMarshalTransformer |-> FALSE, ApplicationMarshalTransformer |-> "nil"]

----------------------------------------------------------------------------
(* Marshal into a writer that fails *)

\* Most bytes a failing writer of the model takes.
MaxErrAt == 16

\* Marshal(opts, &limitedDiscardWriter{left}, obj).
MarshalLimited(opts, left, obj) ==
    On(LimitedDiscardWriter(left), marshalObject(opts, obj))

----------------------------------------------------------------------------
(* Unmarshal: reading from the io.Reader *)

EOF == "EOF"
ErrUnexpectedEOF == "unexpected EOF"
DuplicateKeyError == "Duplicate key"
UnsupportedKeyTypeError == "Unsupported key type"
InvalidFormatError == "Invalid format"
InvalidTimestampError == "Invalid timestamp"

unmarshalMaxArrayAllocElements == 1000
unmarshalReadChunkSize == 4096

\* a + b for unsigned numbers of four limbs (modulo 2^64).
RECURSIVE UAddFrom(_, _, _, _)
UAddFrom(a, b, k, carry) ==
    IF k = 0 THEN a
    ELSE LET d == a[k] + b[k] + carry
         IN  UAddFrom([a EXCEPT ![k] = d % 65536], b, k - 1, d \div 65536)

UAdd(a, b) == UAddFrom(a, b, 4, 0)

\* The state of an unmarshaller's reader during a call:
\*   pos   - the number of bytes consumed from the io.Reader so far
\*   alloc - the total size of the byte buffers made so far (make([]byte, n))
\*   cap   - the largest capacity a result slice was made with (make([]any, 0, c))
\*   reads - the bytes delivered by each io.ReadFull call that reached the
\*           io.Reader, in order
NewReader == [pos |-> 0, alloc |-> L4(0), cap |-> L4(0), reads |-> <<>>]

\* What a read returns: the bytes, the error, and the reader afterwards.
ReadOk(data, rs) == [data |-> data, err |-> "nil", rs |-> rs]
ReadErr(e, rs) == [data |-> <<>>, err |-> e, rs |-> rs]

\* io.ReadFull(u.r, buf) with len(buf) = n, after buf was made.
ReadFull(d, rs, n) ==
    LET left == Len(d) - rs.pos
    IN  IF n = L4(0) THEN ReadOk(<<>>, rs)
        ELSE IF left = 0 THEN ReadErr(EOF, [rs EXCEPT !.reads = Append(@, 0)])
        ELSE IF ULt(L4(left), n)
             THEN ReadErr(ErrUnexpectedEOF,
                          [rs EXCEPT !.pos = Len(d), !.reads = Append(@, left)])
        ELSE ReadOk(SubSeq(d, rs.pos + 1, rs.pos + ToNat(n)),
                    [rs EXCEPT !.pos = rs.pos + ToNat(n),
                               !.reads = Append(@, ToNat(n))])

\* Variant: a reader that reads ahead takes one byte more than asked for.
readByte_readAhead(d, rs) ==
    LET r == ReadFull(d, [rs EXCEPT !.alloc = UAdd(rs.alloc, L4(1))], L4(1))
    IN  IF r.err = "nil" /\ r.rs.pos < Len(d) THEN [r EXCEPT !.rs.pos = @ + 1] ELSE r

readByte(d, rs) ==
    ReadFull(d, [rs EXCEPT !.alloc = UAdd(rs.alloc, L4(1))], L4(1))

readBytes(d, rs, n) ==
    ReadFull(d, [rs EXCEPT !.alloc = UAdd(rs.alloc, n)], n)

\* The loop of readBytesChunked: n bytes are still to be read, rv holds the rest.
RECURSIVE readChunks(_, _, _, _)
readChunks(d, rs, n, rv) ==
    IF n = L4(0) THEN ReadOk(rv, rs)
    ELSE LET m == UMin(n, L4(unmarshalReadChunkSize))
             r == readBytes(d, rs, m)
         IN  IF r.err # "nil" THEN ReadErr(r.err, r.rs)
             ELSE readChunks(d, r.rs, USub(n, m), rv \o r.data)

\* Variant: all n bytes are allocated and read at once.
readBytesChunked_atOnce(d, rs, n) == readBytes(d, rs, n)

readBytesChunked(d, rs, n) ==
    IF ULe(n, L4(unmarshalReadChunkSize)) THEN readBytes(d, rs, n)
    ELSE readChunks(d, rs, n, <<>>)

----------------------------------------------------------------------------
(* Unmarshal: the objects *)

\* What an unmarshal function returns: the object, whether it may be a map
\* key, the error, and the reader afterwards.
Got(obj, key, rs) == [obj |-> obj, key |-> key, err |-> "nil", rs |-> rs]
Err(e, rs) == [obj |-> Nil, key |-> FALSE, err |-> e, rs |-> rs]

\* binary.BigEndian.Uint16/Uint32/Uint64 of the bytes at data[o+1 ..], as limbs.
BE16(data, o) == data[o + 1] * 256 + data[o + 2]
BEUint32(data, o) == <<0, 0, BE16(data, o), BE16(data, o + 2)>>
BEUint64(data, o) == <<BE16(data, o), BE16(data, o + 2), BE16(data, o + 4), BE16(data, o + 6)>>

unmarshalUint8(d, rs) ==
    LET r == readByte(d, rs)
    IN  IF r.err # "nil" THEN Err(r.err, r.rs)
        ELSE Got(UInt("uint", L4(r.data[1])), TRUE, r.rs)

unmarshalUint16(d, rs) ==
    LET r == readBytes(d, rs, L4(2))
    IN  IF r.err # "nil" THEN Err(r.err, r.rs)
        ELSE Got(UInt("uint", L4(BE16(r.data, 0))), TRUE, r.rs)

unmarshalUint32(d, rs) ==
    LET r == readBytes(d, rs, L4(4))
    IN  IF r.err # "nil" THEN Err(r.err, r.rs)
        ELSE Got(UInt("uint", BEUint32(r.data, 0)), TRUE, r.rs)

unmarshalUint64(d, rs) ==
    LET r == readBytes(d, rs, L4(8))
    IN  IF r.err # "nil" THEN Err(r.err, r.rs)
        ELSE Got(UInt("uint", BEUint64(r.data, 0)), TRUE, r.rs)

\* int(int8(b)): sign-extend from 8 bits.
unmarshalInt8(d, rs) ==
    LET r == readByte(d, rs)
        b == r.data[1]
    IN  IF r.err # "nil" THEN Err(r.err, r.rs)
        ELSE Got(SInt("int", IF b >= 128 THEN I64(b - 256) ELSE I64(b)), TRUE, r.rs)

\* Variant: int(x) without the conversion to int16 first.
unmarshalInt16_unsigned(d, rs) ==
    LET r == readBytes(d, rs, L4(2))
        x == BE16(r.data, 0)
    IN  IF r.err # "nil" THEN Err(r.err, r.rs)
        ELSE Got(SInt("int", I64(x)), TRUE, r.rs)

\* int(int16(x)): sign-extend from 16 bits.
unmarshalInt16(d, rs) ==
    LET r == readBytes(d, rs, L4(2))
        x == BE16(r.data, 0)
    IN  IF r.err # "nil" THEN Err(r.err, r.rs)
        ELSE Got(SInt("int", IF x >= 32768 THEN I64(x - 65536) ELSE I64(x)), TRUE, r.rs)

\* int(int32(x)): sign-extend from 32 bits.
unmarshalInt32(d, rs) ==
    LET r == readBytes(d, rs, L4(4))
        x == BEUint32(r.data, 0)
    IN  IF r.err # "nil" THEN Err(r.err, r.rs)
        ELSE Got(SInt("int", IF x[3] >= 32768 THEN <<65535, 65535, x[3], x[4]>> ELSE x),
                 TRUE, r.rs)

unmarshalInt64(d, rs) ==
    LET r == readBytes(d, rs, L4(8))
    IN  IF r.err # "nil" THEN Err(r.err, r.rs)
        ELSE Got(SInt("int", BEUint64(r.data, 0)), TRUE, r.rs)

unmarshalFloat32(d, rs) ==
    LET r == readBytes(d, rs, L4(4))
    IN  IF r.err # "nil" THEN Err(r.err, r.rs)
        ELSE Got(F32(<<BE16(r.data, 0), BE16(r.data, 2)>>), TRUE, r.rs)

unmarshalFloat64(d, rs) ==
    LET r == readBytes(d, rs, L4(8))
    IN  IF r.err # "nil" THEN Err(r.err, r.rs)
        ELSE Got(F64(BEUint64(r.data, 0)), TRUE, r.rs)

unmarshalNString(d, rs, n) ==
    LET r == readBytesChunked(d, rs, n)
    IN  IF r.err # "nil" THEN Err(r.err, r.rs)
        ELSE Got(Str(r.data), TRUE, r.rs)

\* Variant: a []byte may be a map key.
unmarshalNBytes_keyEligible(d, rs, n) ==
    LET r == readBytesChunked(d, rs, n)
    IN  IF r.err # "nil" THEN Err(r.err, r.rs)
        ELSE Got(Bytes(r.data), TRUE, r.rs)

unmarshalNBytes(d, rs, n) ==
    LET r == readBytesChunked(d, rs, n)
    IN  IF r.err # "nil" THEN Err(r.err, r.rs)
        ELSE Got(Bytes(r.data), FALSE, r.rs)

\* Variant: the extension type is taken as an unsigned byte, 0..255.
unmarshalNExt_unsignedType(d, rs, n) ==
    LET e == unmarshalUint8(d, rs)
        r == readBytesChunked(d, e.rs, n)
    IN  IF e.err # "nil" THEN Err(e.err, e.rs)
        ELSE IF r.err # "nil" THEN Err(r.err, r.rs)
        ELSE Got(Ext(e.obj.u[4], r.data), FALSE, r.rs)

\* int8(extensionType) of the int unmarshalInt8 returned: -128..127.
unmarshalNExt(d, rs, n) ==
    LET e == unmarshalInt8(d, rs)
        et == IF e.obj.i[1] = 65535 THEN e.obj.i[4] - 65536 ELSE e.obj.i[4]
        r == readBytesChunked(d, e.rs, n)
    IN  IF e.err # "nil" THEN Err(e.err, e.rs)
        ELSE IF r.err # "nil" THEN Err(r.err, r.rs)
        ELSE Got(Ext(et, r.data), FALSE, r.rs)

----------------------------------------------------------------------------
(* Unmarshal transformers *)

\* 1_000_000_000 as two limbs, and "nsec >= 1_000_000_000" for a uint32.
Billion == <<15258, 51712>>

\* Variant: a timestamp 64 holds 32 bits of nanoseconds, then 32 bits of seconds.
UnmarshalTimestampExtensionType_evenSplit(data, rs) ==
    CASE Len(data) = 4 ->
            Got(Time(BEUint32(data, 0), 0), TRUE, rs)
      [] Len(data) = 8 ->
            LET nsec == <<BE16(data, 0), BE16(data, 2)>>
            IN  IF ULe(Billion, nsec) THEN Err(InvalidTimestampError, rs)
                ELSE Got(Time(BEUint32(data, 4), nsec[1] * 65536 + nsec[2]), TRUE, rs)
      [] Len(data) = 12 ->
            LET nsec == <<BE16(data, 0), BE16(data, 2)>>
                sec == BEUint64(data, 4)
            IN  IF ULe(Billion, nsec) THEN Err(InvalidTimestampError, rs)
                ELSE Got(Time(sec, nsec[1] * 65536 + nsec[2]), TRUE, rs)
      [] OTHER -> Err(InvalidTimestampError, rs)

\* UnmarshalTimestampExtensionType(data); time.Unix(sec, nsec) with
\* 0 <= nsec < 1e9 is the time with those seconds and nanoseconds.
UnmarshalTimestampExtensionType(data, rs) ==
    CASE Len(data) = 4 ->
            Got(Time(BEUint32(data, 0), 0), TRUE, rs)
      [] Len(data) = 8 ->
            LET data64 == BEUint64(data, 0)
                nsec == data64[1] * 16384 + (data64[2] \div 4)
                sec == <<0, data64[2] % 4, data64[3], data64[4]>>
            IN  IF nsec >= 1000000000 THEN Err(InvalidTimestampError, rs)
                ELSE Got(Time(sec, nsec), TRUE, rs)
      [] Len(data) = 12 ->
            LET nsec == <<BE16(data, 0), BE16(data, 2)>>
                sec == BEUint64(data, 4)
            IN  IF ULe(Billion, nsec) THEN Err(InvalidTimestampError, rs)
                ELSE Got(Time(sec, nsec[1] * 65536 + nsec[2]), TRUE, rs)
      [] OTHER -> Err(InvalidTimestampError, rs)

\* The application extension of the package documentation: extension type 42
\* holds a time.Duration as 64 bits, big-endian.
unmarshalDuration(data, rs) ==
    IF Len(data) # 8 THEN Err("invalid", rs)
    ELSE Got(Duration(BEUint64(data, 0)), TRUE, rs)

\* The transformer MakeExtensionTypeUnmarshalTransformer returns for the
\* extensions named by exts: "standard" is {-1: UnmarshalTimestampExtensionType},
\* "unmarshalDuration" is {42: unmarshalDuration}, "timestampOverride" is
\* {-1: func(data) { return "tomorrow", true, nil }}.
ExtensionTypeUnmarshalTransformer(exts, obj, mapKeySupported, rs) ==
    IF obj.t # "ext" THEN Got(obj, mapKeySupported, rs)
    ELSE IF exts = "standard" /\ obj.et = -1
         THEN UnmarshalTimestampExtensionType(obj.data, rs)
    ELSE IF exts = "unmarshalDuration" /\ obj.et = 42
         THEN unmarshalDuration(obj.data, rs)
    ELSE IF exts = "timestampOverride" /\ obj.et = -1
         THEN Got(Str(<<116, 111, 109, 111, 114, 114, 111, 119>>), TRUE, rs)
    ELSE Got(obj, mapKeySupported, rs)

StandardUnmarshalTransformer(obj, mapKeySupported, rs) ==
    ExtensionTypeUnmarshalTransformer("standard", obj, mapKeySupported, rs)

\* An application's transformer that is not made of extension functions: a
\* time.Time becomes its Unix seconds (int64), with the flag it came with.
timeAsUnix(obj, mapKeySupported, rs) ==
    IF obj.t = "time" THEN Got(SInt("int64", obj.sec), mapKeySupported, rs)
    ELSE Got(obj, mapKeySupported, rs)

\* opts.ApplicationUnmarshalTransformer, by name ("nil": not set).
ApplicationUnmarshalTransformer(name, obj, mapKeySupported, rs) ==
    IF name = "timeAsUnix" THEN timeAsUnix(obj, mapKeySupported, rs)
    ELSE ExtensionTypeUnmarshalTransformer(name, obj, mapKeySupported, rs)

----------------------------------------------------------------------------
(* Keys of a map[any]any *)

\* A float32/float64 NaN: exponent all ones, mantissa not zero.
IsNaN32(bits) == /\ (bits[1] % 32768) \div 128 = 255
                 /\ (bits[1] % 128 # 0 \/ bits[2] # 0)
IsNaN64(bits) == /\ (bits[1] % 32768) \div 16 = 2047
                 /\ (bits[1] % 16 # 0 \/ bits[2] # 0 \/ bits[3] # 0 \/ bits[4] # 0)
\* +0 or -0.
IsZero32(bits) == bits[1] % 32768 = 0 /\ bits[2] = 0
IsZero64(bits) == bits[1] % 32768 = 0 /\ bits[2] = 0 /\ bits[3] = 0 /\ bits[4] = 0

\* Go's == on two interface values holding key types: the same dynamic type
\* and equal values (for floats: NaN equals nothing, -0 equals +0).
KeyEq(a, b) ==
    /\ a.t = b.t
    /\ CASE a.t = "float32" ->
              /\ ~IsNaN32(a.bits) /\ ~IsNaN32(b.bits)
              /\ (a.bits = b.bits \/ (IsZero32(a.bits) /\ IsZero32(b.bits)))
         [] a.t = "float64" ->
              /\ ~IsNaN64(a.bits) /\ ~IsNaN64(b.bits)
              /\ (a.bits = b.bits \/ (IsZero64(a.bits) /\ IsZero64(b.bits)))
         [] OTHER -> a = b

\* "_, alreadyPresent := rv[key]" for the entries rv of a map.
alreadyPresent(rv, key) == \E i \in 1..Len(rv) : KeyEq(rv[i][1], key)

----------------------------------------------------------------------------
(* The unmarshaller *)

RECURSIVE unmarshalObject(_, _, _)
RECURSIVE unmarshalStandardObject(_, _, _)
RECURSIVE unmarshalMapEntries(_, _, _, _, _, _)
RECURSIVE unmarshalArrayElements(_, _, _, _, _, _)

\* Variant: the value of an entry whose key is of an unsupported type is not
\* read when the entry is to be ignored.
unmarshalMapEntries_valueNotRead(opts, d, rs, n, i, rv) ==
    IF ~ULt(L4(i), n) THEN Got(AnyMap(rv), FALSE, rs)
    ELSE LET k == unmarshalObject(opts, d, rs)
             v == unmarshalObject(opts, d, k.rs)
         IN  IF k.err # "nil" THEN Err(k.err, k.rs)
             ELSE IF ~k.key /\ opts.DisableUnsupportedKeyTypeError
             THEN unmarshalMapEntries(opts, d, k.rs, n, i + 1, rv)
             ELSE IF v.err # "nil" THEN Err(v.err, v.rs)
             ELSE IF ~k.key THEN Err(UnsupportedKeyTypeError, v.rs)
             ELSE IF alreadyPresent(rv, k.obj)
             THEN IF ~opts.DisableDuplicateKeyError THEN Err(DuplicateKeyError, v.rs)
                  ELSE unmarshalMapEntries(opts, d, v.rs, n, i + 1, rv)
             ELSE unmarshalMapEntries(opts, d, v.rs, n, i + 1, Append(rv, <<k.obj, v.obj>>))

\* The loop of unmarshalNMap, at entry i (from 0) of n, with rv the map so far
\* (its entries in the order they were stored).
unmarshalMapEntries(opts, d, rs, n, i, rv) ==
    IF ~ULt(L4(i), n) THEN Got(AnyMap(rv), FALSE, rs)
    ELSE LET k == unmarshalObject(opts, d, rs)
             v == unmarshalObject(opts, d, k.rs)
             err == IF k.err # "nil" THEN k.err
                    ELSE IF v.err # "nil" THEN v.err
                    ELSE IF ~k.key /\ ~opts.DisableUnsupportedKeyTypeError
                         THEN UnsupportedKeyTypeError
                    ELSE IF k.key /\ alreadyPresent(rv, k.obj)
                            /\ ~opts.DisableDuplicateKeyError
                         THEN DuplicateKeyError
                    ELSE "nil"
             \* an entry is stored unless it is ignored: its key is of an
             \* unsupported type, or the first pair with the same key wins
             stored == IF k.key /\ ~alreadyPresent(rv, k.obj)
                       THEN Append(rv, <<k.obj, v.obj>>)
                       ELSE rv
         IN  IF err # "nil" THEN Err(err, IF k.err # "nil" THEN k.rs ELSE v.rs)
             ELSE unmarshalMapEntries(opts, d, v.rs, n, i + 1, stored)

\* Variant: a key of an unsupported type is always dropped, never an error.
unmarshalNMap_neverUnsupported(opts, d, rs, n) ==
    unmarshalMapEntries([opts EXCEPT !.DisableUnsupportedKeyTypeError = TRUE],
                        d, rs, n, 0, <<>>)

unmarshalNMap(opts, d, rs, n) == unmarshalMapEntries(opts, d, rs, n, 0, <<>>)

\* The loop of unmarshalNArray, at element i (from 0) of n.
unmarshalArrayElements(opts, d, rs, n, i, rv) ==
    IF ~ULt(L4(i), n) THEN Got(Arr(rv), FALSE, rs)
    ELSE LET e == unmarshalObject(opts, d, rs)
         IN  IF e.err # "nil" THEN Err(e.err, e.rs)
             ELSE unmarshalArrayElements(opts, d, e.rs, n, i + 1, Append(rv, e.obj))

\* rv := make([]any, 0, min(n, unmarshalMaxArrayAllocElements))
unmarshalNArray(opts, d, rs, n) ==
    LET c == UMin(n, L4(unmarshalMaxArrayAllocElements))
    IN  unmarshalArrayElements(opts, d, [rs EXCEPT !.cap = UMax(rs.cap, c)], n, 0, <<>>)

\* "n, _, err := u.unmarshalUintK(); if err != nil { return }; return rest(n)"
\* for a bin, ext or str, where len is the result of unmarshalUintK.
unmarshalSized(d, len, what) ==
    IF len.err # "nil" THEN Err(len.err, len.rs)
    ELSE CASE what = "bytes" -> unmarshalNBytes(d, len.rs, len.obj.u)
           [] what = "ext" -> unmarshalNExt(d, len.rs, len.obj.u)
           [] what = "string" -> unmarshalNString(d, len.rs, len.obj.u)

\* The element count of an array or map with tag b: in the tag (fixarray,
\* fixmap) or read by unmarshalUint16 (array 16, map 16) or unmarshalUint32.
unmarshalCount(d, rs, b) ==
    CASE b <= 159 -> Got(UInt("uint", L4(b % 16)), TRUE, rs)
      [] b \in {220, 222} -> unmarshalUint16(d, rs)
      [] b \in {221, 223} -> unmarshalUint32(d, rs)

\* "if err != nil { return }; return u.unmarshalNArray(n)" (or unmarshalNMap),
\* where n is the result of unmarshalCount.
unmarshalCounted(opts, d, n, what) ==
    IF n.err # "nil" THEN Err(n.err, n.rs)
    ELSE IF what = "map" THEN unmarshalNMap(opts, d, n.rs, n.obj.u)
    ELSE unmarshalNArray(opts, d, n.rs, n.obj.u)

\* The switch of unmarshalStandardObject on the tag byte b, read from d
\* before rs.
unmarshalTagged(opts, d, rs, b) ==
    CASE b <= 127 -> Got(SInt("int", I64(b)), TRUE, rs)
      [] (b > 127 /\ b <= 143) \/ b = 222 \/ b = 223 ->
            unmarshalCounted(opts, d, unmarshalCount(d, rs, b), "map")
      [] (b > 143 /\ b <= 159) \/ b = 220 \/ b = 221 ->
            unmarshalCounted(opts, d, unmarshalCount(d, rs, b), "array")
      [] b > 159 /\ b <= 191 -> unmarshalNString(d, rs, L4(b % 32))
      [] b >= 224 -> Got(SInt("int", I64(b - 256)), TRUE, rs)
      [] b = 192 -> Got(Nil, TRUE, rs)
      [] b = 193 -> Err(InvalidFormatError, rs)
      [] b = 194 -> Got(Bool(FALSE), TRUE, rs)
      [] b = 195 -> Got(Bool(TRUE), TRUE, rs)
      [] b = 196 -> unmarshalSized(d, unmarshalUint8(d, rs), "bytes")
      [] b = 197 -> unmarshalSized(d, unmarshalUint16(d, rs), "bytes")
      [] b = 198 -> unmarshalSized(d, unmarshalUint32(d, rs), "bytes")
      [] b = 199 -> unmarshalSized(d, unmarshalUint8(d, rs), "ext")
      [] b = 200 -> unmarshalSized(d, unmarshalUint16(d, rs), "ext")
      [] b = 201 -> unmarshalSized(d, unmarshalUint32(d, rs), "ext")
      [] b = 202 -> unmarshalFloat32(d, rs)
      [] b = 203 -> unmarshalFloat64(d, rs)
      [] b = 204 -> unmarshalUint8(d, rs)
      [] b = 205 -> unmarshalUint16(d, rs)
      [] b = 206 -> unmarshalUint32(d, rs)
      [] b = 207 -> unmarshalUint64(d, rs)
      [] b = 208 -> unmarshalInt8(d, rs)
      [] b = 209 -> unmarshalInt16(d, rs)
      [] b = 210 -> unmarshalInt32(d, rs)
      [] b = 211 -> unmarshalInt64(d, rs)
      [] b = 212 -> unmarshalNExt(d, rs, L4(1))
      [] b = 213 -> unmarshalNExt(d, rs, L4(2))
      [] b = 214 -> unmarshalNExt(d, rs, L4(4))
      [] b = 215 -> unmarshalNExt(d, rs, L4(8))
      [] b = 216 -> unmarshalNExt(d, rs, L4(16))
      [] b = 217 -> unmarshalSized(d, unmarshalUint8(d, rs), "string")
      [] b = 218 -> unmarshalSized(d, unmarshalUint16(d, rs), "string")
      [] b = 219 -> unmarshalSized(d, unmarshalUint32(d, rs), "string")
      [] OTHER -> Err("panic: Should be unreachable!", rs)

\* Variant whose dispatch has no case for the reserved tag 0xc1.
unmarshalStandardObject_noReserved(opts, d, rs0) ==
    LET t == readByte(d, rs0)
    IN  IF t.err # "nil" THEN Err(t.err, t.rs)
        ELSE IF t.data[1] = 193 THEN Err("panic: Should be unreachable!", t.rs)
        ELSE unmarshalTagged(opts, d, t.rs, t.data[1])

unmarshalStandardObject(opts, d, rs0) ==
    LET t == readByte(d, rs0)
    IN  IF t.err # "nil" THEN Err(t.err, t.rs)
        ELSE unmarshalTagged(opts, d, t.rs, t.data[1])


\* The application unmarshal transformer, if any, on the result s of the
\* standard one.
unmarshalApplication(opts, s) ==
    IF s.err # "nil" \/ opts.ApplicationUnmarshalTransformer = "nil" THEN s
    ELSE ApplicationUnmarshalTransformer(opts.ApplicationUnmarshalTransformer,
                                         s.obj, s.key, s.rs)

\* The standard unmarshal transformer, unless disabled, on the result o of
\* unmarshalStandardObject.
unmarshalStandard(opts, o) ==
    IF o.err # "nil" \/ opts.DisableStandardUnmarshalTransformer THEN o
    ELSE StandardUnmarshalTransformer(o.obj, o.key, o.rs)

\* Variant: the application transformer runs before the standard one.
unmarshalObject_applicationFirst(opts, d, rs) ==
    unmarshalStandard(opts,
        unmarshalApplication(opts, unmarshalStandardObject(opts, d, rs)))

unmarshalObject(opts, d, rs) ==
    unmarshalApplication(opts,
        unmarshalStandard(opts, unmarshalStandardObject(opts, d, rs)))

\* Unmarshal(opts, r) with r a reader over the bytes d (UnmarshalBytes(opts, d)).
Unmarshal(opts, d) == unmarshalObject(opts, d, NewReader)

DefaultUnmarshalOptions ==
    [DisableDuplicateKeyError |-> FALSE,
     DisableUnsupportedKeyTypeError |-> FALSE,
     DisableStandardUnmarshalTransformer |-> FALSE,
     ApplicationUnmarshalTransformer |-> "nil"]

----------------------------------------------------------------------------
(* The callers: bounded sets of objects, options and inputs *)

\* Bounds of the model.
MaxElems == 2      \* elements of an input []any
MaxEntries == 2    \* entries of an input map and of a map written by hand
MaxTail == 2       \* bytes supplied after a length prefix written by hand
MaxCut == 12       \* an encoding is cut at each of its first MaxCut positions

\* n bytes 0, 1, 2, ... (fillerBytes of the tests).
Filler(n) == [i \in 1..n |-> (i - 1) % 256]

\* Integers at the boundaries of the wire forms.
IntBoundaries ==
    {I64(0), I64(127), I64(128), I64(-1), I64(-32), I64(-33), I64(-128), I64(-129),
     I64(193), I64(32767), I64(32768), I64(-32768), I64(-32769),
     MaxInt32, <<0, 0, 32768, 0>>, MinInt32, <<65535, 65535, 32767, 65535>>,
     <<0, 0, 65535, 65535>>, <<0, 1, 0, 0>>, MaxInt64, MinInt64}

UintBoundaries ==
    {L4(0), L4(127), L4(193), L4(255), L4(256), L4(65535), L4(65536),
     MaxUint32, <<0, 1, 0, 0>>, <<32768, 0, 0, 0>>, <<65535, 65535, 65535, 65535>>}

SignedInputs ==
    {SInt("int", i) : i \in IntBoundaries}
    \cup {SInt("int8", I64(5)), SInt("int8", I64(-128)), SInt("int16", I64(5)),
          SInt("int16", I64(-129)), SInt("int32", I64(5)), SInt("int32", I64(32768)),
          SInt("int64", I64(5)), SInt("int64", <<0, 0, 32768, 0>>)}

UnsignedInputs ==
    {UInt("uint", u) : u \in UintBoundaries}
    \cup {UInt("uint8", L4(5)), UInt("uint16", L4(5)), UInt("uint16", L4(256)),
          UInt("uint32", L4(5)), UInt("uint32", L4(65536)), UInt("uint64", L4(5)),
          UInt("uint64", <<0, 1, 0, 0>>), UInt("uintptr", L4(5))}

\* 1.0, -0.0, +Inf and a NaN as float32; 1.0, 4.5, -0.0, a NaN and MaxFloat64 as float64.
FloatInputs ==
    {F32(<<16256, 0>>), F32(<<32768, 0>>), F32(<<32640, 0>>), F32(<<32704, 1>>),
     F64(<<16368, 0, 0, 0>>), F64(<<16402, 0, 0, 0>>), F64(<<32768, 0, 0, 0>>),
     F64(<<32760, 0, 0, 1>>), F64(<<32751, 65535, 65535, 65535>>)}

StringInputs ==
    {Str(Filler(n)) : n \in {0, 1, 2, 31, 32, 193, 255, 256}} \cup {Str(<<193>>)}

BytesInputs ==
    {Bytes(Filler(n)) : n \in {0, 1, 2, 193, 255, 256}} \cup {Bytes(<<193>>)}

ExtInputs ==
    {Ext(18, Filler(n)) : n \in {0, 1, 2, 3, 4, 5, 7, 8, 9, 15, 16, 17, 255, 256}}
    \cup {Ext(-63, <<7>>), Ext(-128, <<1, 2>>), Ext(127, <<>>), Ext(-1, <<1, 2, 3>>)}

\* timestamp 32, 64 and 96 cases.
TimeInputs ==
    {Time(I64(0), 0), Time(MaxUint32, 0), Time(<<0, 1, 0, 0>>, 0), Time(I64(0), 1),
     Time(<<0, 3, 65535, 65535>>, 999999999), Time(<<0, 4, 0, 0>>, 0),
     Time(<<0, 4, 0, 0>>, 999999999), Time(I64(-1), 0), Time(I64(-1), 999999999),
     Time(MinInt64, 1), Time(MaxInt64, 0), Time(<<4660, 22136, 39612, 57072>>, 305419896)}

ScalarInputs ==
    {Nil, Bool(FALSE), Bool(TRUE)} \cup SignedInputs \cup UnsignedInputs
    \cup FloatInputs \cup StringInputs \cup BytesInputs \cup TimeInputs

\* What the elements of an input array and the values of an input map are drawn from.
ElemInputs ==
    {Nil, SInt("int", I64(123)), Str(<<104, 105>>), Time(I64(0), 1),
     Arr(<<UInt("uint", L4(193))>>), Struct}

\* What the keys of an input map[any]any are drawn from.
KeyInputs ==
    {SInt("int", I64(12)), SInt("int8", I64(12)), UInt("uint", L4(12)),
     Str(<<102, 111, 111>>), F64(<<16368, 0, 0, 0>>), Time(MaxUint32, 0)}

ValueInputs == {SInt("int", I64(42)), Arr(<<Nil>>)}

\* Sequences over S of length 0..n.
SeqsUpTo(S, n) == UNION {[1..k -> S] : k \in 0..n}

\* The entries of a Go map have pairwise different keys.
DistinctKeys(kvs) == \A i, j \in 1..Len(kvs) : i # j => kvs[i][1] # kvs[j][1]

ArrayInputs ==
    {Arr(a) : a \in SeqsUpTo(ElemInputs, MaxElems)}
    \cup {Arr([i \in 1..n |-> Nil]) : n \in {15, 16}}
    \cup {GenericSlice(<<SInt("int", I64(123)), SInt("int", I64(45))>>)}

MapInputs ==
    {AnyMap(kvs) : kvs \in {m \in SeqsUpTo(KeyInputs \X ValueInputs, MaxEntries) :
                               DistinctKeys(m)}}
    \cup {AnyMap([i \in 1..n |-> <<SInt("int", I64(i)), Nil>>]) : n \in {15, 16}}
    \cup {AnyMap(<<<<Struct, Nil>>>>),
          AnyMap(<<<<Str(<<97>>), Struct>>>>),
          StringMap(<<<<<<102, 111, 111>>, Str(<<98, 97, 114>>)>>>>),
          StringMap(<<<<<<97>>, Time(I64(0), 0)>>, <<<<98>>, Nil>>>>),
          GenericMap(<<<<SInt("int", I64(1)), Bool(TRUE)>>>>)}

\* The objects Marshal is called with.
Objects ==
    ScalarInputs \cup ExtInputs \cup ArrayInputs \cup MapInputs
    \cup {Duration(L4(123)), Struct,
          Arr(<<Duration(L4(123)), Str(<<104, 105>>)>>),
          AnyMap(<<<<Str(<<97>>), Duration(L4(123))>>>>),
          AnyMap(<<<<Duration(L4(123)), Str(<<97>>)>>>>),
          AnyMap(<<<<Struct, Nil>>, <<Str(<<97>>), Duration(L4(123))>>>>),
          AnyMap(<<<<Str(<<97>>), Duration(L4(123))>>, <<Struct, Nil>>>>),
          Arr(<<AnyMap(<<<<Str(<<102, 111, 111>>), Str(<<98, 97, 114>>)>>>>),
                SInt("int", I64(123)), F64(<<16402, 0, 0, 0>>)>>)}

MarshalOptionSets ==
    [DisableStandardMarshalTransformer : BOOLEAN,
     ApplicationMarshalTransformer : {"nil", "marshalDuration", "durationAsTime",
                                      "stringAsBytes"}]
    \cup {[DisableStandardMarshalTransformer |-> FALSE,
           ApplicationMarshalTransformer |-> "rejectDuration"]}

\* The option sets of the tests: the defaults, each option alone, every
\* boolean option together, and an application extension.
UnmarshalOptionSets ==
    {DefaultUnmarshalOptions,
     [DefaultUnmarshalOptions EXCEPT !.DisableDuplicateKeyError = TRUE],
     [DefaultUnmarshalOptions EXCEPT !.DisableUnsupportedKeyTypeError = TRUE],
     [DefaultUnmarshalOptions EXCEPT !.DisableStandardUnmarshalTransformer = TRUE],
     [DisableDuplicateKeyError |-> TRUE, DisableUnsupportedKeyTypeError |-> TRUE,
      DisableStandardUnmarshalTransformer |-> TRUE,
      ApplicationUnmarshalTransformer |-> "nil"],
     [DefaultUnmarshalOptions EXCEPT !.ApplicationUnmarshalTransformer = "unmarshalDuration"],
     [DefaultUnmarshalOptions EXCEPT !.ApplicationUnmarshalTransformer = "timestampOverride"],
     [DefaultUnmarshalOptions EXCEPT !.ApplicationUnmarshalTransformer = "timestampOverride",
                                     !.DisableStandardUnmarshalTransformer = TRUE],
     [DefaultUnmarshalOptions EXCEPT !.ApplicationUnmarshalTransformer = "timeAsUnix"]}

\* Element counts at the boundaries of the length prefixes, up to 2^32 and
\* beyond.
PrefixLengths ==
    {L4(0), L4(1), L4(2), L4(3), L4(4), L4(5), L4(8), L4(9), L4(15), L4(16), L4(17),
     L4(31), L4(32), L4(193), L4(255), L4(256), L4(65535), L4(65536), L4(99999),
     MaxUint32, <<0, 1, 0, 0>>, <<0, 1, 0, 1>>, MaxInt64}

PrefixKinds == {"array", "map"}

\* Byte counts of strings, []byte and extension data around the 16 and 32 bit
\* forms, up to 2^32 and beyond.
LongLengths ==
    {L4(65535), L4(65536), L4(99999), MaxUint32, <<0, 1, 0, 0>>, <<0, 1, 0, 1>>}

LongKinds == {"string", "bytes", "ext"}

\* Keys and values as they appear on the wire, for maps written by hand:
\* 12 as fixint, int 8 and uint 8, "a", +0.0 and -0.0 and a NaN as float 32,
\* an empty bin and an empty array (not valid keys).
WireKeys == {<<12>>, <<208, 12>>, <<204, 12>>, <<161, 97>>, <<202, 0, 0, 0, 0>>,
             <<202, 128, 0, 0, 0>>, <<202, 127, 192, 0, 0>>, <<196, 0>>, <<144>>}

WireValues == {<<42>>, <<43>>}

WireEntries == {k \o v : k \in WireKeys, v \in WireValues}

WireMaps ==
    {<<128 + Len(es)>> \o Flatten(es) : es \in SeqsUpTo(WireEntries, MaxEntries)}

\* Length prefixes declaring up to 2^32-1 bytes of a str, bin or ext payload.
HugePayloadPrefixes ==
    {<<219, 255, 255, 255, 255>>, <<198, 255, 255, 255, 255>>, <<201, 255, 255, 255, 255>>,
     <<219, 0, 1, 0, 0>>, <<198, 0, 0, 16, 1>>, <<201, 0, 0, 16, 1>>,
     <<218, 255, 255>>, <<197, 16, 1>>, <<200, 255, 255>>}

\* Length prefixes declaring up to 2^32-1 elements of an array.
HugeArrayPrefixes ==
    {<<221, 255, 255, 255, 255>>, <<220, 255, 255>>, <<221, 0, 0, 3, 233>>}

\* Length prefixes declaring up to 2^32-1 entries of a map.
HugeMapPrefixes == {<<223, 255, 255, 255, 255>>, <<222, 255, 255>>}

\* One-byte values (1, nil, an empty array) and the reserved byte.
TailBytes == {1, 192, 144, 193}

\* Elements that are in error by themselves: a fixext 1 of type -1 (a
\* timestamp of one byte) and a map whose key is an array.
ElementsInError == {<<212, 255, 0>>, <<129, 144, 192>>}

\* A length prefix, then a few bytes.
HugeInputs ==
    {p \o t : p \in HugePayloadPrefixes \cup HugeArrayPrefixes \cup HugeMapPrefixes,
              t \in SeqsUpTo(TailBytes, MaxTail)}
    \cup {p \o t : p \in HugeArrayPrefixes, t \in ElementsInError}

\* One value in each wire form: nil, false, true, 12 and -12 as fixint, int
\* 8/16/32/64 and uint 8/16/32/64, 1.0 as float 32/64, "12" as fixstr and str
\* 8/16/32, a bin 8/16/32, an array and a map as fix/16/32, an extension of
\* type 7 as fixext 1/2/4/8/16 and ext 8/16/32.
FormInputs ==
    {<<192>>, <<194>>, <<195>>, <<12>>, <<244>>, <<208, 12>>, <<209, 255, 244>>,
     <<210, 0, 0, 0, 12>>, <<211, 255, 255, 255, 255, 255, 255, 255, 244>>,
     <<204, 12>>, <<205, 0, 12>>, <<206, 0, 0, 0, 12>>, <<207, 0, 0, 0, 0, 0, 0, 0, 12>>,
     <<202, 63, 128, 0, 0>>, <<203, 63, 240, 0, 0, 0, 0, 0, 0>>,
     <<162, 49, 50>>, <<217, 2, 49, 50>>, <<218, 0, 2, 49, 50>>, <<219, 0, 0, 0, 2, 49, 50>>,
     <<196, 1, 7>>, <<197, 0, 1, 7>>, <<198, 0, 0, 0, 1, 7>>,
     <<145, 192>>, <<220, 0, 1, 192>>, <<221, 0, 0, 0, 1, 192>>,
     <<129, 12, 42>>, <<222, 0, 1, 12, 42>>, <<223, 0, 0, 0, 1, 12, 42>>,
     <<212, 7, 0>>, <<213, 7, 0, 1>>, <<214, 7, 0, 1, 2, 3>>,
     <<215, 7>> \o Filler(8), <<216, 7>> \o Filler(16),
     <<199, 1, 7, 66>>, <<200, 0, 1, 7, 66>>, <<201, 0, 0, 0, 1, 7, 66>>}

\* An extension of every type byte in each wire form: fixext 1/2/4/8/16, ext 8
\* of 0 and of 3 bytes, ext 16 and ext 32 of 3 bytes.
ExtWireInputs ==
    {f[1] \o <<t>> \o Filler(f[2]) :
        t \in 0..255,
        f \in {<<(<<212>>), 1>>, <<(<<213>>), 2>>, <<(<<214>>), 4>>, <<(<<215>>), 8>>,
               <<(<<216>>), 16>>, <<(<<199, 0>>), 0>>, <<(<<199, 3>>), 3>>,
               <<(<<200, 0, 3>>), 3>>, <<(<<201, 0, 0, 0, 3>>), 3>>}}

\* Extensions of type -1: the timestamp 64 and 96 of the tests, nanoseconds of
\* 999999999, 10^9 and 2^30-1 with the largest seconds, a negative timestamp
\* 96, and payloads of 5, 7, 9, 11 and 13 bytes.
TimestampInputs ==
    {<<215, 255, 29, 111, 52, 86, 52, 86, 120, 154>>,
     <<215, 255, 238, 107, 39, 255, 255, 255, 255, 255>>,
     <<215, 255, 238, 107, 40, 0, 0, 0, 0, 0>>,
     <<215, 255, 255, 255, 255, 252, 0, 0, 0, 1>>,
     <<199, 12, 255, 18, 52, 86, 120, 18, 52, 86, 120, 154, 188, 222, 240>>,
     <<199, 12, 255, 59, 154, 201, 255, 255, 255, 255, 255, 255, 255, 255, 255>>,
     <<199, 12, 255, 59, 154, 202, 0, 0, 0, 0, 0, 0, 0, 0, 0>>,
     <<199, 12, 255, 255, 255, 255, 255, 0, 0, 0, 0, 0, 0, 0, 1>>,
     <<200, 0, 4, 255, 18, 52, 86, 120>>,
     <<201, 0, 0, 0, 8, 255, 29, 111, 52, 86, 52, 86, 120, 154>>}
    \cup {<<199, n, 255>> \o Filler(n) : n \in {5, 7, 9, 11, 13}}

\* Each of them as the key of a one-entry map.
FormKeyInputs == {<<129>> \o f \o <<42>> : f \in FormInputs}

\* Timestamps as the only element of an array and as the key of a map.
NestedTimestampInputs ==
    {<<145>> \o f : f \in TimestampInputs}
    \cup {<<129>> \o f \o <<42>> : f \in TimestampInputs}

\* Inputs written by hand rather than by Marshal.
\* A two-element array holding a map and, after it, the number 43.
FollowedMaps == {<<146>> \o m \o <<43>> : m \in WireMaps}

\* One input per tag byte value, alone, followed by enough bytes for the
\* form the tag announces, and as the element of a one-element array.
TagTail == [i \in 1..40 |-> IF i = 1 THEN 0 ELSE i]

TagInputs ==
    UNION {{<<b>>, <<b>> \o TagTail, <<145, b>> \o TagTail} : b \in 0..255}

CraftedInputs ==
    TagInputs \cup WireMaps \cup FollowedMaps \cup HugeInputs \cup FormInputs \cup FormKeyInputs \cup ExtWireInputs
    \cup TimestampInputs \cup NestedTimestampInputs
    \cup {<<>>, <<193>>, <<145, 193>>, <<199, 0, 7>>, <<214, 255, 18, 52, 86, 120>>,
          <<215, 255, 238, 107, 40, 0, 0, 0, 0, 0>>, <<215, 42, 0, 0, 0, 0, 0, 0, 0, 123>>,
          <<129, 214, 255, 0, 0, 0, 1, 42>>, <<130, 214, 255, 0, 0, 0, 1, 42,
            215, 255, 0, 0, 0, 0, 0, 0, 0, 1, 43>>,
          <<145, 129, 196, 0, 42>>}

\* Where an encoding of m bytes is cut: near its start, near its end and
\* around the boundaries of the unmarshaller's read chunks.
CutPoints(m) == {k \in 0..m : \/ k <= MaxCut
                              \/ m - k <= 2
                              \/ k % unmarshalReadChunkSize <= 4}

----------------------------------------------------------------------------
(* The state machine *)

None == [t |-> "none"]
NoMarshal == [ws |-> <<>>, err |-> "none"]
NoUnmarshal == [obj |-> None, key |-> FALSE, err |-> "none", rs |-> NewReader]

\* No ReadViewer was made; nothing was written to a stream.
NoViewer == [kind |-> "none"]
NoStream == [written |-> <<>>, read |-> <<>>, pos |-> 0]

Init ==
    /\ pc = "idle"
    /\ mobj = None
    /\ mopts = DefaultMarshalOptions
    /\ mres = NoMarshal
    /\ rdata = <<>>
    /\ uopts = DefaultUnmarshalOptions
    /\ ures = NoUnmarshal
    /\ calls = <<>>
    /\ errAt = -1
    /\ gor = <<>>
    /\ viewer = NoViewer
    /\ stream = NoStream

\* Marshal(opts, w, obj) into a buffer.
MarshalCall ==
    /\ pc = "idle"
    /\ \E obj \in Objects, opts \in MarshalOptionSets :
          /\ mobj' = obj
          /\ mopts' = opts
          /\ mres' = Marshal(opts, obj)
    /\ pc' = "marshalled"
    /\ UNCHANGED <<gor, viewer, stream, errAt, calls, rdata, uopts, ures>>

\* Marshal(opts, w, obj) into a writer that takes k bytes.
MarshalLimitedCall ==
    /\ pc = "idle"
    /\ \E obj \in Objects, opts \in MarshalOptionSets, k \in 0..MaxErrAt :
          /\ mobj' = obj
          /\ mopts' = opts
          /\ errAt' = k
          /\ mres' = MarshalLimited(opts, k, obj)
    /\ pc' = "written"
    /\ UNCHANGED <<gor, viewer, stream, calls, rdata, uopts, ures>>

\* m.writeArrayPrefix(u) and m.writeMapPrefix(u): the method is called with
\* the element count u.
PrefixCall ==
    /\ pc = "idle"
    /\ \E kind \in PrefixKinds, u \in PrefixLengths :
          /\ mobj' = [t |-> "length", of |-> kind, u |-> u]
          /\ mres' = CASE kind = "array" -> On(Buffer, writeArrayPrefix(u))
                       [] kind = "map" -> On(Buffer, writeMapPrefix(u))
    /\ pc' = "prefixed"
    /\ UNCHANGED <<gor, viewer, stream, errAt, calls, mopts, rdata, uopts, ures>>

\* m.marshalString(s), m.marshalBytes(b) and m.marshalExtensionType(18, b) on
\* u zero bytes: the prefix and the contents are written.
LongCall ==
    /\ pc = "idle"
    /\ \E kind \in LongKinds, u \in LongLengths :
          /\ mobj' = [t |-> "length", of |-> kind, u |-> u]
          /\ mres' = CASE kind = "string" -> On(Buffer, marshalLongString(u))
                       [] kind = "bytes" -> On(Buffer, marshalLongBytes(u))
                       [] kind = "ext" -> On(Buffer, marshalLongExtension(18, u))
    /\ pc' = "long"
    /\ UNCHANGED <<gor, viewer, stream, errAt, calls, mopts, rdata, uopts, ures>>

\* The caller hands the first k bytes of what Marshal wrote to a reader.
Load ==
    /\ pc = "marshalled"
    /\ mres.err = "nil"
    /\ LET enc == Flatten(mres.ws)
       IN  \E k \in CutPoints(Len(enc)) : rdata' = SubSeq(enc, 1, k)
    /\ pc' = "loaded"
    /\ UNCHANGED <<gor, viewer, stream, errAt, calls, mobj, mopts, mres, uopts, ures>>

\* The caller hands bytes written by hand to a reader.
Craft ==
    /\ pc = "idle"
    /\ \E d \in CraftedInputs : rdata' = d
    /\ pc' = "loaded"
    /\ UNCHANGED <<gor, viewer, stream, errAt, calls, mobj, mopts, mres, uopts, ures>>

\* Unmarshal(opts, r).
UnmarshalCall ==
    /\ pc = "loaded"
    /\ \E opts \in UnmarshalOptionSets :
          /\ uopts' = opts
          /\ ures' = Unmarshal(opts, rdata)
    /\ pc' = "unmarshalled"
    /\ UNCHANGED <<gor, viewer, stream, errAt, calls, mobj, mopts, mres, rdata>>

\* The caller starts over.
Reset ==
    /\ pc \in {"marshalled", "written", "prefixed", "long", "unmarshalled"}
    /\ pc' = "idle"
    /\ errAt' = -1
    /\ mobj' = None
    /\ mopts' = DefaultMarshalOptions
    /\ mres' = NoMarshal
    /\ rdata' = <<>>
    /\ uopts' = DefaultUnmarshalOptions
    /\ ures' = NoUnmarshal
    /\ UNCHANGED <<gor, viewer, stream, calls>>

Next == MarshalCall \/ MarshalLimitedCall \/ PrefixCall \/ LongCall \/ Load \/ Craft \/ UnmarshalCall \/ Reset

Spec == Init /\ [][Next]_vars

----------------------------------------------------------------------------
(* The encoder with extension functions and object transformers
   (MarshalOptions.ApplicationMarshalExtensions and
   MarshalOptions.ApplicationMarshalObjectTransformers), one marshalObject
   call at a time.  The encoders of the built-in types write the same bytes as
   above. *)

FunctionDoesNotApply == "Function does not apply"
InvalidApplicationExtensionType == "panic: Invalid application extension type"
StackOverflow == "fatal error: stack overflow"

\* The deepest nesting of marshalObject calls the goroutine's stack holds.
MaxDepth == 6

DoesNotApply == [et |-> 0, data |-> <<>>, err |-> FunctionDoesNotApply]
ToExtension(et, data) == [et |-> et, data |-> data, err |-> "nil"]

\* The MarshalToExtensionTypeFn functions of the application, by name.
MarshalToExtensionTypeFn(name, obj) ==
    CASE name = "durationExt5" /\ obj.t = "duration" -> ToExtension(5, BE8(obj.d))
      [] name = "durationExt6" /\ obj.t = "duration" -> ToExtension(6, <<1>>)
      [] name = "timeExt7" /\ obj.t = "time" -> ToExtension(7, <<2>>)
      [] name = "structExt128" /\ obj.t = "struct" -> ToExtension(128, <<3>>)
      [] OTHER -> DoesNotApply

marshalToTimestampExtensionType(obj) ==
    IF obj.t # "time" THEN DoesNotApply
    ELSE LET e == TimestampExtensionMarshalTransformer(obj).obj
         IN  ToExtension(e.et, e.data)

standardMarshalExtensions == <<"marshalToTimestampExtensionType">>

\* "for _, extFn := range fns": the result of the first function, from the
\* i-th on, that does not return FunctionDoesNotApply.
RECURSIVE firstExtension(_, _, _)
firstExtension(fns, obj, i) ==
    IF i > Len(fns) THEN DoesNotApply
    ELSE LET r == IF fns[i] = "marshalToTimestampExtensionType"
                  THEN marshalToTimestampExtensionType(obj)
                  ELSE MarshalToExtensionTypeFn(fns[i], obj)
         IN  IF r.err # FunctionDoesNotApply THEN r
             ELSE firstExtension(fns, obj, i + 1)

\* "if extType < 0 || extType > 127 { panic(...) }" on the result a of an
\* application's function.
checkedApplicationExtension(a) ==
    IF a.err = "nil" /\ (a.et < 0 \/ a.et > 127)
    THEN [a EXCEPT !.err = InvalidApplicationExtensionType]
    ELSE a

\* The result of the first loop if a function applied, else that of the second.
extensionOf(first, second) ==
    IF first.err # FunctionDoesNotApply THEN first ELSE second

\* Variant: the standard extension functions are tried before the
\* application's.
marshalExtensions_standardFirst(opts, obj) ==
    extensionOf(firstExtension(standardMarshalExtensions, obj, 1),
                checkedApplicationExtension(
                    firstExtension(opts.ApplicationMarshalExtensions, obj, 1)))

\* The two loops over the extension functions in marshalObjectHelper.
marshalExtensions(opts, obj) ==
    extensionOf(checkedApplicationExtension(
                    firstExtension(opts.ApplicationMarshalExtensions, obj, 1)),
                firstExtension(standardMarshalExtensions, obj, 1))

\* The MarshalObjectTransformerFn functions of the application, by name.
MarshalObjectTransformerFn(name, obj) ==
    CASE name = "durationToInt64" /\ obj.t = "duration" -> Xformed(SInt("int64", obj.d))
      [] name = "structToDuration" /\ obj.t = "struct" -> Xformed(Duration(L4(123)))
      [] name = "structToStruct" /\ obj.t = "struct" -> Xformed(Struct)
      [] name = "structToArray" /\ obj.t = "struct" -> Xformed(Arr(<<Struct>>))
      [] OTHER -> [obj |-> obj, err |-> FunctionDoesNotApply]

\* "for _, xformFn := range fns": the result of the first transformer, from
\* the i-th on, that does not return FunctionDoesNotApply.
RECURSIVE firstTransformer(_, _, _)
firstTransformer(fns, obj, i) ==
    IF i > Len(fns) THEN [obj |-> obj, err |-> FunctionDoesNotApply]
    ELSE LET r == MarshalObjectTransformerFn(fns[i], obj)
         IN  IF r.err # FunctionDoesNotApply THEN r
             ELSE firstTransformer(fns, obj, i + 1)

\* A pending call marshalObjectHelper(obj, applyTransformers), nested depth
\* calls deep.
Call(obj, applyTransformers, depth) ==
    [obj |-> obj, applyTransformers |-> applyTransformers, depth |-> depth]

\* The outcome of one call: the bytes it writes itself, its error, and the
\* calls it makes, in order.
Outcome(ws, err, made) == [ws |-> ws, err |-> err, calls |-> made]

\* What a call does once the built-in type's encoder or prefix writer f is
\* done, the writer being a bytes.Buffer: the calls made are those for the
\* elements, if any.
EncodedAs(r, made) == Outcome(r.ws, r.err, made)

Encoded(f, made) == EncodedAs(On(Buffer, f), made)

\* The part of marshalObjectHelper after the type switch: e is the result of
\* the extension functions, x that of the transformers.
afterTypeSwitch(c, e, x) ==
    IF e.err = "nil" THEN Encoded(marshalExtensionType(e.et, e.data), <<>>)
    ELSE IF e.err # FunctionDoesNotApply THEN Outcome(<<>>, e.err, <<>>)
    ELSE IF c.applyTransformers /\ x.err = "nil"
         THEN Outcome(<<>>, "nil", <<Call(x.obj, FALSE, c.depth + 1)>>)
    ELSE IF c.applyTransformers /\ x.err # FunctionDoesNotApply
         THEN Outcome(<<>>, x.err, <<>>)
    ELSE Outcome(<<>>, UnsupportedTypeForMarshallingError, <<>>)

\* One call of marshalObjectHelper, up to the calls it makes for the elements
\* of a container or for the transformed object.
marshalObjectHelper(opts, c) ==
    CASE c.obj.t \in {"nil", "bool", "int", "uint", "float32", "float64", "string", "bytes"} ->
            Encoded(marshalSwitch(DefaultMarshalOptions, c.obj), <<>>)
      [] c.obj.t = "array" ->
            Encoded(writeArrayPrefix(L4(Len(c.obj.a))),
                    [j \in 1..Len(c.obj.a) |-> Call(c.obj.a[j], TRUE, c.depth + 1)])
      [] c.obj.t = "map" ->
            Encoded(writeMapPrefix(L4(Len(c.obj.kvs))),
                    [j \in 1..(2 * Len(c.obj.kvs)) |->
                        Call(c.obj.kvs[(j + 1) \div 2][2 - (j % 2)], TRUE, c.depth + 1)])
      [] OTHER ->
            afterTypeSwitch(c, marshalExtensions(opts, c.obj),
                firstTransformer(opts.ApplicationMarshalObjectTransformers, c.obj, 1))

\* The objects and options of the callers.
HelperObjects ==
    {Nil, SInt("int", I64(1)), Str(<<97>>), Time(L4(1), 0), Time(I64(-1), 5),
     Duration(L4(123)), Struct,
     Arr(<<Duration(L4(123)), Time(L4(1), 0)>>), Arr(<<Struct, SInt("int", I64(1))>>),
     Arr(<<Arr(<<Struct>>)>>),
     AnyMap(<<<<Duration(L4(123)), Struct>>>>), AnyMap(<<<<Str(<<97>>), Time(L4(1), 0)>>>>)}

HelperExtensionLists ==
    {<<>>, <<"durationExt5">>, <<"durationExt5", "durationExt6">>,
     <<"durationExt6", "durationExt5">>, <<"timeExt7">>, <<"durationExt6", "timeExt7">>,
     <<"structExt128">>}

HelperTransformerLists ==
    {<<>>, <<"durationToInt64">>, <<"structToDuration">>, <<"structToStruct">>,
     <<"structToDuration", "structToStruct">>, <<"structToStruct", "durationToInt64">>,
     <<"structToArray">>}

HelperOptionSets ==
    [ApplicationMarshalExtensions : HelperExtensionLists,
     ApplicationMarshalObjectTransformers : HelperTransformerLists]

HelperInit ==
    /\ pc = "idle"
    /\ mobj = None
    /\ mopts = [ApplicationMarshalExtensions |-> <<>>,
                ApplicationMarshalObjectTransformers |-> <<>>]
    /\ mres = NoMarshal
    /\ calls = <<>>
    /\ errAt = -1
    /\ gor = <<>>
    /\ viewer = NoViewer
    /\ stream = NoStream
    /\ rdata = <<>>
    /\ uopts = DefaultUnmarshalOptions
    /\ ures = NoUnmarshal

\* Marshal(opts, w, obj) is called: marshalObject(obj) is pending.
HelperCall ==
    /\ pc = "idle"
    /\ \E obj \in HelperObjects, opts \in HelperOptionSets :
          /\ mobj' = obj
          /\ mopts' = opts
          /\ calls' = <<Call(obj, TRUE, 1)>>
    /\ mres' = Wrote(<<>>)
    /\ pc' = "running"
    /\ UNCHANGED <<gor, viewer, stream, errAt, rdata, uopts, ures>>

\* The state after the pending call c with outcome o: an error ends the
\* Marshal call, and so does a stack that cannot hold the call.
afterCall(c, o) ==
    IF c.depth > MaxDepth
    THEN [mres |-> [mres EXCEPT !.err = StackOverflow], calls |-> <<>>, pc |-> "crashed"]
    ELSE IF o.err # "nil"
    THEN [mres |-> [mres EXCEPT !.err = o.err], calls |-> <<>>, pc |-> "returned"]
    ELSE [mres |-> [mres EXCEPT !.ws = mres.ws \o o.ws],
          calls |-> o.calls \o Tail(calls),
          pc |-> IF o.calls \o Tail(calls) = <<>> THEN "returned" ELSE "running"]

\* The next pending call runs.
HelperStep ==
    /\ pc = "running"
    /\ calls # <<>>
    /\ \E n \in {afterCall(Head(calls), marshalObjectHelper(mopts, Head(calls)))} :
          /\ mres' = n.mres
          /\ calls' = n.calls
          /\ pc' = n.pc
    /\ UNCHANGED <<gor, viewer, stream, errAt, mobj, mopts, rdata, uopts, ures>>

HelperReset ==
    /\ pc \in {"returned", "crashed"}
    /\ pc' = "idle"
    /\ mobj' = None
    /\ mopts' = [ApplicationMarshalExtensions |-> <<>>,
                 ApplicationMarshalObjectTransformers |-> <<>>]
    /\ mres' = NoMarshal
    /\ UNCHANGED <<gor, viewer, stream, errAt, calls, rdata, uopts, ures>>

HelperNext == HelperCall \/ HelperStep \/ HelperReset

HelperSpec == HelperInit /\ [][HelperNext]_vars

----------------------------------------------------------------------------
(* The encoder with late transformers (MarshalOptions.LateMarshalTransformers):
   marshalObject tries marshalStandardObject, and on
   UnsupportedTypeForMarshallingError runs the transformers and tries again,
   writing to the same writer.  The encoders of the built-in types write the
   same bytes as above. *)

\* The MarshalTransformerFn functions of the application, by name; a function
\* that does not apply returns the object as it is.
LateMarshalTransformer(name, obj) ==
    CASE name = "structToNil" /\ obj.t = "struct" -> Xformed(Nil)
      [] name = "structToStruct" /\ obj.t = "struct" -> Xformed(Struct)
      [] name = "structToDuration" /\ obj.t = "struct" -> Xformed(Duration(L4(123)))
      [] name = "durationToInt64" /\ obj.t = "duration" -> Xformed(SInt("int64", obj.d))
      [] name = "structsToNil" /\ obj.t = "array" ->
            Xformed(Arr([j \in 1..Len(obj.a) |->
                            IF obj.a[j].t = "struct" THEN Nil ELSE obj.a[j]]))
      [] OTHER -> Xformed(obj)

\* runTransformers(xforms, obj), from the i-th transformer on.
RECURSIVE runTransformers(_, _, _)
runTransformers(xforms, obj, i) ==
    IF i > Len(xforms) THEN Xformed(obj)
    ELSE IF LateMarshalTransformer(xforms[i], obj).err # "nil"
         THEN [obj |-> Nil, err |-> LateMarshalTransformer(xforms[i], obj).err]
         ELSE runTransformers(xforms, LateMarshalTransformer(xforms[i], obj).obj, i + 1)

\* What a has written, then what b writes and returns.
After(a, b) == [ws |-> a.ws \o b.ws, err |-> b.err, w |-> b.w]

RECURSIVE lateMarshalObject(_, _)
RECURSIVE marshalStandardObject(_, _)
RECURSIVE lateMarshalEach(_, _, _)

\* "for _, v := range a { if err := m.marshalObject(v); err != nil { return err } }"
lateMarshalEach(opts, vs, i) ==
    IF i > Len(vs) THEN Return("nil")
    ELSE Then(lateMarshalObject(opts, vs[i]), lateMarshalEach(opts, vs, i + 1))

marshalStandardObject(opts, obj) ==
    CASE obj.t \in {"nil", "bool", "int", "uint", "float32", "float64", "string", "bytes"} ->
            marshalSwitch(DefaultMarshalOptions, obj)
      [] obj.t = "array" ->
            Then(writeArrayPrefix(L4(Len(obj.a))), lateMarshalEach(opts, obj.a, 1))
      [] obj.t = "map" ->
            Then(writeMapPrefix(L4(Len(obj.kvs))),
                 lateMarshalEach(opts, [j \in 1..(2 * Len(obj.kvs)) |->
                                           obj.kvs[(j + 1) \div 2][2 - (j % 2)]], 1))
      [] obj.t = "ext" -> marshalExtensionType(obj.et, obj.data)
      [] obj.t = "time" ->
            marshalExtensionType(-1, TimestampExtensionMarshalTransformer(obj).obj.data)
      [] OTHER -> Return(UnsupportedTypeForMarshallingError)

\* The second half of marshalObject: first is what marshalStandardObject did
\* with the object, x what runTransformers returned.
secondAttempt(opts, first, x) ==
    IF x.err # "nil" THEN [first EXCEPT !.err = x.err]
    ELSE After(first, marshalStandardObject(opts, x.obj)[first.w])

retryMarshalObject(opts, obj, first) ==
    IF first.err # UnsupportedTypeForMarshallingError THEN first
    ELSE secondAttempt(opts, first, runTransformers(opts.LateMarshalTransformers, obj, 1))

lateMarshalObject(opts, obj) ==
    [w \in Writers |-> retryMarshalObject(opts, obj, marshalStandardObject(opts, obj)[w])]

\* The objects and options of the callers.
LateObjects ==
    {Nil, Bool(TRUE), SInt("int", I64(1)), Str(<<97>>), Bytes(<<1>>), Ext(5, <<1>>),
     Time(L4(1), 0), Duration(L4(123)), Struct,
     Arr(<<>>), Arr(<<SInt("int", I64(1))>>), Arr(<<Struct>>),
     Arr(<<SInt("int", I64(1)), Struct>>), Arr(<<Struct, SInt("int", I64(1))>>),
     Arr(<<Duration(L4(123)), Struct>>), Arr(<<Arr(<<Struct>>)>>),
     Arr(<<Arr(<<SInt("int", I64(1))>>), Struct>>),
     AnyMap(<<<<Str(<<97>>), Struct>>>>), AnyMap(<<<<Struct, Nil>>>>),
     AnyMap(<<<<Str(<<97>>), Arr(<<Struct>>)>>>>),
     AnyMap(<<<<Str(<<97>>), SInt("int", I64(1))>>>>)}

LateOptionSets ==
    [LateMarshalTransformers :
        {<<>>, <<"structToNil">>, <<"structToStruct">>, <<"durationToInt64">>,
         <<"structToDuration", "durationToInt64">>,
         <<"durationToInt64", "structToDuration">>, <<"structsToNil">>,
         <<"structsToNil", "structToNil">>}]

LateInit ==
    /\ pc = "idle"
    /\ mobj = None
    /\ mopts = [LateMarshalTransformers |-> <<>>]
    /\ mres = NoMarshal
    /\ calls = <<>>
    /\ errAt = -1
    /\ gor = <<>>
    /\ viewer = NoViewer
    /\ stream = NoStream
    /\ rdata = <<>>
    /\ uopts = DefaultUnmarshalOptions
    /\ ures = NoUnmarshal

\* Marshal(opts, w, obj) into a buffer.
LateCall ==
    /\ pc = "idle"
    /\ \E obj \in LateObjects, opts \in LateOptionSets :
          /\ mobj' = obj
          /\ mopts' = opts
          /\ mres' = On(Buffer, lateMarshalObject(opts, obj))
    /\ pc' = "returned"
    /\ UNCHANGED <<gor, viewer, stream, calls, errAt, rdata, uopts, ures>>

LateReset ==
    /\ pc = "returned"
    /\ pc' = "idle"
    /\ mobj' = None
    /\ mopts' = [LateMarshalTransformers |-> <<>>]
    /\ mres' = NoMarshal
    /\ UNCHANGED <<gor, viewer, stream, calls, errAt, rdata, uopts, ures>>

LateNext == LateCall \/ LateReset

LateSpec == LateInit /\ [][LateNext]_vars

----------------------------------------------------------------------------
(* Concurrent calls: every Marshal call makes its own marshaller
   (&marshaller{opts: opts, w: w}, with its own sbuf) and every Unmarshal call
   its own unmarshaller; the options are shared and only read.  A goroutine
   takes one step per statement that touches the marshaller: filling sbuf,
   and calling Write with it.  (The argument of write(data...) is the caller's
   data; the model keeps the argument of the pending Write in sbuf for it as
   well.) *)

Goroutines == 1..2

\* The marshaller whose sbuf the helpers writeByte .. write9Bytes of goroutine
\* g use: its own.
sbufOf_shared(g) == 1

sbufOf(g) == g

ConcObjects ==
    {Nil, SInt("int", I64(-1000)), Str(<<104, 105>>), Time(L4(1), 0), Duration(L4(123)),
     Arr(<<Str(<<104, 105>>), Struct>>), AnyMap(<<<<Str(<<97>>), Bytes(<<1, 2>>)>>>>)}

ConcInputs == {<<>>, <<192>>, <<146, 1, 2, 3>>, <<161>>, <<214, 42, 0, 0, 0, 1>>}

ConcMarshalOptionSets ==
    {DefaultMarshalOptions,
     [DisableStandardMarshalTransformer |-> TRUE, ApplicationMarshalTransformer |-> "nil"],
     [DisableStandardMarshalTransformer |-> FALSE,
      ApplicationMarshalTransformer |-> "marshalDuration"]}

ConcUnmarshalOptionSets ==
    {DefaultUnmarshalOptions,
     [DefaultUnmarshalOptions EXCEPT !.ApplicationUnmarshalTransformer = "unmarshalDuration"]}

\* go func() { err = Marshal(opts, w, obj) }() with a writer of its own.
GoMarshal(obj) ==
    [kind |-> "Marshal", obj |-> obj, data |-> <<>>, at |-> "fill", i |-> 0, pos |-> 0,
     sbuf |-> <<>>, w |-> <<>>, err |-> "none", res |-> NoUnmarshal]

\* go func() { rv, err = Unmarshal(opts, r) }() with a reader of its own.
GoUnmarshal(d) ==
    [kind |-> "Unmarshal", obj |-> None, data |-> d, at |-> "read", i |-> 0, pos |-> 0,
     sbuf |-> <<>>, w |-> <<>>, err |-> "none", res |-> NoUnmarshal]

ConcInit ==
    /\ pc = "idle"
    /\ mobj = None
    /\ mopts = DefaultMarshalOptions
    /\ mres = NoMarshal
    /\ calls = <<>>
    /\ errAt = -1
    /\ gor = <<>>
    /\ viewer = NoViewer
    /\ stream = NoStream
    /\ rdata = <<>>
    /\ uopts = DefaultUnmarshalOptions
    /\ ures = NoUnmarshal

\* The calls are started with one *MarshalOptions and one *UnmarshalOptions.
ConcStart ==
    /\ pc = "idle"
    /\ \E mo \in ConcMarshalOptionSets, uo \in ConcUnmarshalOptionSets :
          /\ mopts' = mo
          /\ uopts' = uo
    /\ \E gs \in [Goroutines -> {GoMarshal(o) : o \in ConcObjects}
                                   \cup {GoUnmarshal(d) : d \in ConcInputs}] :
          gor' = gs
    /\ pc' = "running"
    /\ UNCHANGED <<viewer, stream, calls, errAt, mobj, mres, rdata, ures>>

\* A write helper of goroutine g stores the bytes of its next Write call.
Fill(g) ==
    /\ pc = "running"
    /\ gor[g].kind = "Marshal" /\ gor[g].at = "fill"
    /\ gor[g].i < Len(Marshal(mopts, gor[g].obj).ws)
    /\ gor' = [gor EXCEPT ![sbufOf(g)].sbuf = Marshal(mopts, gor[g].obj).ws[gor[g].i + 1],
                          ![g].at = "write"]
    /\ UNCHANGED <<pc, viewer, stream, calls, errAt, mobj, mopts, mres, rdata, uopts, ures>>

\* m.w.Write(m.sbuf[0:n]) of goroutine g.
WriteStep(g) ==
    /\ pc = "running"
    /\ gor[g].kind = "Marshal" /\ gor[g].at = "write"
    /\ gor' = [gor EXCEPT ![g].w = @ \o gor[sbufOf(g)].sbuf,
                          ![g].i = @ + 1,
                          ![g].at = "fill"]
    /\ UNCHANGED <<pc, viewer, stream, calls, errAt, mobj, mopts, mres, rdata, uopts, ures>>

\* Marshal of goroutine g returns.
MarshalReturn(g) ==
    /\ pc = "running"
    /\ gor[g].kind = "Marshal" /\ gor[g].at = "fill"
    /\ gor[g].i = Len(Marshal(mopts, gor[g].obj).ws)
    /\ gor' = [gor EXCEPT ![g].err = Marshal(mopts, gor[g].obj).err,
                          ![g].at = "done"]
    /\ UNCHANGED <<pc, viewer, stream, calls, errAt, mobj, mopts, mres, rdata, uopts, ures>>

\* The io.ReadFull calls Unmarshal of goroutine g makes on its reader, each as
\* the number of bytes the reader delivers.
readsOf(g) == Unmarshal(uopts, gor[g].data).rs.reads

\* io.ReadFull(u.r, buf) of goroutine g: the reader puts the next k bytes into
\* the buffer readByte or readBytes made for the call.
ReadStep(g) ==
    /\ pc = "running"
    /\ gor[g].kind = "Unmarshal" /\ gor[g].at = "read"
    /\ \E reads \in {readsOf(g)} :
          /\ gor[g].i < Len(reads)
          /\ \E k \in {reads[gor[g].i + 1]} :
                gor' = [gor EXCEPT ![sbufOf(g)].sbuf =
                                       SubSeq(gor[g].data, gor[g].pos + 1, gor[g].pos + k),
                                   ![g].pos = @ + k,
                                   ![g].at = "take"]
    /\ UNCHANGED <<pc, viewer, stream, calls, errAt, mobj, mopts, mres, rdata, uopts, ures>>

\* readByte or readBytes of goroutine g returns what is in its buffer.
TakeStep(g) ==
    /\ pc = "running"
    /\ gor[g].kind = "Unmarshal" /\ gor[g].at = "take"
    /\ gor' = [gor EXCEPT ![g].w = @ \o gor[sbufOf(g)].sbuf,
                          ![g].i = @ + 1,
                          ![g].at = "read"]
    /\ UNCHANGED <<pc, viewer, stream, calls, errAt, mobj, mopts, mres, rdata, uopts, ures>>

\* Unmarshal of goroutine g returns what it decoded from the bytes it took.
UnmarshalReturn(g) ==
    /\ pc = "running"
    /\ gor[g].kind = "Unmarshal" /\ gor[g].at = "read"
    /\ \E r \in {Unmarshal(uopts, gor[g].w)} :
          /\ gor[g].i = Len(r.rs.reads)
          /\ gor' = [gor EXCEPT ![g].res = r, ![g].err = r.err, ![g].at = "done"]
    /\ UNCHANGED <<pc, viewer, stream, calls, errAt, mobj, mopts, mres, rdata, uopts, ures>>

\* All calls have returned (sync.WaitGroup.Wait).
ConcWait ==
    /\ pc = "running"
    /\ \A g \in Goroutines : gor[g].at = "done"
    /\ pc' = "idle"
    /\ gor' = <<>>
    /\ mopts' = DefaultMarshalOptions
    /\ uopts' = DefaultUnmarshalOptions
    /\ UNCHANGED <<viewer, stream, calls, errAt, mobj, mres, rdata, ures>>

ConcNext ==
    \/ ConcStart
    \/ \E g \in Goroutines : Fill(g)
    \/ \E g \in Goroutines : WriteStep(g)
    \/ \E g \in Goroutines : MarshalReturn(g)
    \/ \E g \in Goroutines : ReadStep(g)
    \/ \E g \in Goroutines : TakeStep(g)
    \/ \E g \in Goroutines : UnmarshalReturn(g)
    \/ ConcWait

ConcSpec == ConcInit /\ [][ConcNext]_vars

----------------------------------------------------------------------------
(* ReadViewer (readviewer.go): ReadViewerForReader wraps an io.Reader,
   ReadViewerForBuffer a byte slice.  A read returns the data, the error, and
   the position afterwards: the number of bytes the io.Reader has handed out,
   or r.pos. *)

readerChunkSize == 4096

\* makeTestBuf(n) of the tests: n bytes, the i-th (from 0) being i % 256.
makeTestBuf(n) == [i \in 1..n |-> (i - 1) % 256]

ViewOk(data, pos) == [data |-> data, err |-> "nil", pos |-> pos]
ViewErr(e, pos) == [data |-> <<>>, err |-> e, pos |-> pos]

\* io.ReadFull(r.Reader, data) with len(data) = n, the Reader being at pos of buf.
viewReadFull(buf, pos, n) ==
    LET f == ReadFull(buf, [NewReader EXCEPT !.pos = pos], L4(n))
    IN  [data |-> f.data, err |-> f.err, pos |-> f.rs.pos]

ReadViewerForReader_ReadByte(buf, pos) ==
    IF viewReadFull(buf, pos, 1).err # "nil"
    THEN [data |-> <<0>>, err |-> viewReadFull(buf, pos, 1).err,
          pos |-> viewReadFull(buf, pos, 1).pos]
    ELSE viewReadFull(buf, pos, 1)

readCopyAll(buf, pos, n) ==
    IF viewReadFull(buf, pos, n).err # "nil"
    THEN ViewErr(viewReadFull(buf, pos, n).err, viewReadFull(buf, pos, n).pos)
    ELSE viewReadFull(buf, pos, n)

\* One round of the loop of ReadCopy: chunk is what readCopyAll(m) returned.
RECURSIVE readCopyLoop(_, _, _, _)
afterChunk_plainEOF(buf, n, data, m, chunk) ==
    IF chunk.err # "nil" THEN ViewErr(chunk.err, chunk.pos)
    ELSE readCopyLoop(buf, chunk.pos, n - m, data \o chunk.data)

afterChunk(buf, n, data, m, chunk) ==
    IF chunk.err # "nil"
    THEN IF chunk.err = EOF /\ Len(data) > 0 THEN ViewErr(ErrUnexpectedEOF, chunk.pos)
         ELSE ViewErr(chunk.err, chunk.pos)
    ELSE readCopyLoop(buf, chunk.pos, n - m, data \o chunk.data)

readCopyLoop(buf, pos, n, data) ==
    IF n > 0
    THEN afterChunk(buf, n, data, IF n < readerChunkSize THEN n ELSE readerChunkSize,
                    readCopyAll(buf, pos, IF n < readerChunkSize THEN n ELSE readerChunkSize))
    ELSE ViewOk(data, pos)

ReadViewerForReader_ReadCopy(buf, pos, n) ==
    IF n <= readerChunkSize THEN readCopyAll(buf, pos, n)
    ELSE readCopyLoop(buf, pos, n, <<>>)

ReadViewerForReader_ReadView(buf, pos, n) == ReadViewerForReader_ReadCopy(buf, pos, n)

ReadViewerForBuffer_ReadByte(buf, pos) ==
    IF pos >= Len(buf) THEN [data |-> <<0>>, err |-> EOF, pos |-> pos]
    ELSE ViewOk(<<buf[pos + 1]>>, pos + 1)

ReadViewerForBuffer_ReadView(buf, pos, n) ==
    IF n = 0 THEN ViewOk(<<>>, pos)
    ELSE IF pos >= Len(buf) THEN ViewErr(EOF, pos)
    ELSE IF Len(buf) - pos < n THEN ViewErr(ErrUnexpectedEOF, pos)
    ELSE ViewOk(SubSeq(buf, pos + 1, pos + n), pos + n)

ReadViewerForBuffer_ReadCopy(buf, pos, n) ==
    IF ReadViewerForBuffer_ReadView(buf, pos, n).err # "nil"
    THEN ViewErr(ReadViewerForBuffer_ReadView(buf, pos, n).err,
                 ReadViewerForBuffer_ReadView(buf, pos, n).pos)
    ELSE ReadViewerForBuffer_ReadView(buf, pos, n)

\* The method op of a ReadViewer of the given kind.
ReadViewerCall(kind, op, buf, pos, n) ==
    CASE kind = "reader" /\ op = "ReadByte" -> ReadViewerForReader_ReadByte(buf, pos)
      [] kind = "reader" /\ op = "ReadView" -> ReadViewerForReader_ReadView(buf, pos, n)
      [] kind = "reader" /\ op = "ReadCopy" -> ReadViewerForReader_ReadCopy(buf, pos, n)
      [] kind = "buffer" /\ op = "ReadByte" -> ReadViewerForBuffer_ReadByte(buf, pos)
      [] kind = "buffer" /\ op = "ReadView" -> ReadViewerForBuffer_ReadView(buf, pos, n)
      [] kind = "buffer" /\ op = "ReadCopy" -> ReadViewerForBuffer_ReadCopy(buf, pos, n)

\* The callers: the buffers are makeTestBuf(len), the read sizes those around
\* the chunk size, and a viewer is read at most MaxReads times.
MaxReads == 4
BufferLengths == {0, 1, 6, readerChunkSize, readerChunkSize + 2}
ReadSizes == {0, 1, 2, 3, readerChunkSize, readerChunkSize + 1, 2 * readerChunkSize}

NoRead == [op |-> "none", n |-> 0, before |-> 0, data |-> <<>>, err |-> "none"]

ViewInit ==
    /\ pc = "idle"
    /\ mobj = None
    /\ mopts = DefaultMarshalOptions
    /\ mres = NoMarshal
    /\ calls = <<>>
    /\ errAt = -1
    /\ gor = <<>>
    /\ viewer = NoViewer
    /\ stream = NoStream
    /\ rdata = <<>>
    /\ uopts = DefaultUnmarshalOptions
    /\ ures = NoUnmarshal

\* r := ReadViewerForReader{bytes.NewBuffer(data)}, or
\* r := &ReadViewerForBuffer{Buffer: data}.
NewViewer ==
    /\ pc = "idle"
    /\ \E kind \in {"reader", "buffer"}, len \in BufferLengths :
          viewer' = [kind |-> kind, len |-> len, pos |-> 0, reads |-> 0,
                     last |-> NoRead, prev |-> NoRead]
    /\ pc' = "viewing"
    /\ UNCHANGED <<gor, stream, calls, errAt, mobj, mopts, mres, rdata, uopts, ures>>

\* What the viewer is after the call op(n) returned res.
afterRead(op, n, res) ==
    [viewer EXCEPT !.pos = res.pos,
                   !.reads = @ + 1,
                   !.prev = viewer.last,
                   !.last = [op |-> op, n |-> n, before |-> viewer.pos,
                             data |-> res.data, err |-> res.err]]

ReadByteCall ==
    /\ pc = "viewing" /\ viewer.reads < MaxReads
    /\ viewer' = afterRead("ReadByte", 1,
                           ReadViewerCall(viewer.kind, "ReadByte",
                                          makeTestBuf(viewer.len), viewer.pos, 1))
    /\ UNCHANGED <<pc, gor, stream, calls, errAt, mobj, mopts, mres, rdata, uopts, ures>>

ReadViewCall ==
    /\ pc = "viewing" /\ viewer.reads < MaxReads
    /\ \E n \in ReadSizes :
          viewer' = afterRead("ReadView", n,
                              ReadViewerCall(viewer.kind, "ReadView",
                                             makeTestBuf(viewer.len), viewer.pos, n))
    /\ UNCHANGED <<pc, gor, stream, calls, errAt, mobj, mopts, mres, rdata, uopts, ures>>

ReadCopyCall ==
    /\ pc = "viewing" /\ viewer.reads < MaxReads
    /\ \E n \in ReadSizes :
          viewer' = afterRead("ReadCopy", n,
                              ReadViewerCall(viewer.kind, "ReadCopy",
                                             makeTestBuf(viewer.len), viewer.pos, n))
    /\ UNCHANGED <<pc, gor, stream, calls, errAt, mobj, mopts, mres, rdata, uopts, ures>>

ViewReset ==
    /\ pc = "viewing"
    /\ pc' = "idle"
    /\ viewer' = NoViewer
    /\ UNCHANGED <<gor, stream, calls, errAt, mobj, mopts, mres, rdata, uopts, ures>>

ViewNext == NewViewer \/ ReadByteCall \/ ReadViewCall \/ ReadCopyCall \/ ViewReset

ViewSpec == ViewInit /\ [][ViewNext]_vars

----------------------------------------------------------------------------
(* A stream: values are marshalled one after the other into one bytes.Buffer,
   and Unmarshal is called on that buffer again and again; each call makes an
   unmarshaller of its own over the same reader, which is where the call
   before left it. *)

MaxStream == 3

StreamObjects ==
    {Nil, SInt("int", I64(-1000)), Str(<<104, 105>>), Bytes(<<1, 2>>), Time(L4(1), 0),
     Arr(<<SInt("int", I64(1)), Nil>>), AnyMap(<<<<Str(<<97>>), Nil>>>>)}

\* Unmarshal(opts, r) on a reader that has handed out pos bytes of d.
UnmarshalFrom(opts, d, pos) == unmarshalObject(opts, d, [NewReader EXCEPT !.pos = pos])

StreamInit ==
    /\ pc = "idle"
    /\ mobj = None
    /\ mopts = DefaultMarshalOptions
    /\ mres = NoMarshal
    /\ calls = <<>>
    /\ errAt = -1
    /\ gor = <<>>
    /\ viewer = NoViewer
    /\ stream = NoStream
    /\ rdata = <<>>
    /\ uopts = DefaultUnmarshalOptions
    /\ ures = NoUnmarshal

\* Marshal(nil, buf, obj): the bytes are appended to the buffer.
StreamWrite ==
    /\ pc \in {"idle", "streaming"}
    /\ Len(stream.written) < MaxStream
    /\ \E obj \in StreamObjects :
          /\ Marshal(DefaultMarshalOptions, obj).err = "nil"
          /\ rdata' = rdata \o Flatten(Marshal(DefaultMarshalOptions, obj).ws)
          /\ stream' = [stream EXCEPT !.written = Append(@, obj)]
    /\ pc' = "streaming"
    /\ UNCHANGED <<gor, viewer, calls, errAt, mobj, mopts, mres, uopts, ures>>

\* What the stream is after an Unmarshal call returned r: the call is noted
\* with the part of the buffer it read and the number of values written so far.
afterUnmarshal(r) ==
    [stream EXCEPT !.pos = r.rs.pos,
                   !.read = Append(@, [obj |-> r.obj, err |-> r.err, from |-> stream.pos,
                                       to |-> r.rs.pos, written |-> Len(stream.written)])]

\* Unmarshal(nil, buf) on the same buffer.
StreamRead ==
    /\ pc = "streaming"
    /\ Len(stream.read) <= MaxStream
    /\ ures' = UnmarshalFrom(DefaultUnmarshalOptions, rdata, stream.pos)
    /\ stream' = afterUnmarshal(UnmarshalFrom(DefaultUnmarshalOptions, rdata, stream.pos))
    /\ UNCHANGED <<pc, gor, viewer, calls, errAt, mobj, mopts, mres, rdata, uopts>>

StreamReset ==
    /\ pc = "streaming"
    /\ pc' = "idle"
    /\ rdata' = <<>>
    /\ stream' = NoStream
    /\ ures' = NoUnmarshal
    /\ UNCHANGED <<gor, viewer, calls, errAt, mobj, mopts, mres, uopts>>

StreamNext == StreamWrite \/ StreamRead \/ StreamReset

StreamSpec == StreamInit /\ [][StreamNext]_vars

----------------------------------------------------------------------------
(* Properties *)

\* The big-endian bytes of a number held as 16-bit limbs.
LimbBytes(x) == [j \in 1..(2 * Len(x)) |-> IF j % 2 = 1 THEN x[(j + 1) \div 2] \div 256
                                           ELSE x[j \div 2] % 256]

LastBytes(s, w) == SubSeq(s, Len(s) - w + 1, Len(s))

DefaultOptions == mopts = DefaultMarshalOptions /\ uopts = DefaultUnmarshalOptions

\* The reader was given everything the Marshal call wrote.
WholeEncoding == mres.err = "nil" /\ rdata = Flatten(mres.ws)

\* The values of the round trip: nil, bool, int, uint, float32, float64, string,
\* []byte, time.Time, and []any and map[any]any of them, a map's keys being of
\* the types Unmarshal accepts as keys.
RECURSIVE Supported(_)
Supported(v) ==
    CASE v.t \in {"nil", "bool", "float32", "float64", "string", "bytes", "time"} -> TRUE
      [] v.t = "int" -> v.k = "int"
      [] v.t = "uint" -> v.k = "uint"
      [] v.t = "array" -> \A i \in 1..Len(v.a) : Supported(v.a[i])
      [] v.t = "map" -> \A i \in 1..Len(v.kvs) :
                            /\ Supported(v.kvs[i][1])
                            /\ v.kvs[i][1].t \notin {"bytes", "array", "map"}
                            /\ Supported(v.kvs[i][2])
      [] OTHER -> FALSE

\* Equality of values: a map's entries are in no order, a float is its bits.
RECURSIVE Same(_, _)
Same(a, b) ==
    /\ a.t = b.t
    /\ CASE a.t = "array" ->
              /\ Len(a.a) = Len(b.a)
              /\ \A i \in 1..Len(a.a) : Same(a.a[i], b.a[i])
         [] a.t = "map" ->
              /\ Len(a.kvs) = Len(b.kvs)
              /\ \A i \in 1..Len(a.kvs) : \E j \in 1..Len(b.kvs) :
                    Same(a.kvs[i][1], b.kvs[j][1]) /\ Same(a.kvs[i][2], b.kvs[j][2])
         [] OTHER -> a = b

\* C1: for every value v built from nil, bool, int, uint, float32, float64,
\* string, []byte, []any, map[any]any and time.Time, MarshalToBytes with default
\* options succeeds, and UnmarshalBytes with default options on the bytes it
\* wrote succeeds and returns a value equal to v.
C1_RoundTrip ==
    (Supported(mobj) /\ mopts = DefaultMarshalOptions) =>
        /\ pc \in {"marshalled", "loaded", "unmarshalled"} => mres.err = "nil"
        /\ (pc = "unmarshalled" /\ uopts = DefaultUnmarshalOptions
              /\ rdata = Flatten(mres.ws))
           => (ures.err = "nil" /\ Same(ures.obj, mobj))

\* A map with a time.Time key and another entry came back.
C1_Witness ==
    /\ pc = "unmarshalled" /\ Supported(mobj) /\ DefaultOptions /\ WholeEncoding
    /\ mobj.t = "map" /\ Len(mobj.kvs) = 2
    /\ \E i \in 1..2 : mobj.kvs[i][1].t = "time"
    /\ ures.err = "nil" /\ ures.obj.t = "map" /\ Len(ures.obj.kvs) = 2

\* The narrowest signed form that holds i: 0 stands for a fixint, otherwise the
\* number of bytes after the tag.
SignedWidth(i) ==
    CASE SLe(I64(-32), i) /\ SLe(i, I64(127)) -> 0
      [] SLe(I64(-128), i) /\ SLe(i, I64(127)) -> 1
      [] SLe(I64(-32768), i) /\ SLe(i, I64(32767)) -> 2
      [] SLe(MinInt32, i) /\ SLe(i, MaxInt32) -> 4
      [] OTHER -> 8

SignedTag(w) == CASE w = 1 -> 208 [] w = 2 -> 209 [] w = 4 -> 210 [] w = 8 -> 211

SignedForm(i) ==
    LET w == SignedWidth(i)
    IN  IF w = 0 THEN LastBytes(LimbBytes(i), 1)
        ELSE <<SignedTag(w)>> \o LastBytes(LimbBytes(i), w)

\* C2: for every signed integer input (int, int8, int16, int32, int64) with
\* value i, Marshal emits the smallest of positive fixint, negative fixint,
\* int 8, int 16, int 32, int 64 that can hold i, and never an unsigned tag
\* (0xcc-0xcf), even when i is non-negative and would fit.
C2_SignedMinimal ==
    (pc = "marshalled" /\ mobj.t = "int") =>
        /\ mres.err = "nil"
        /\ Flatten(mres.ws) = SignedForm(mobj.i)
        /\ Flatten(mres.ws)[1] \notin 204..207

\* 128 as an int: it fits uint 8 and is written as int 16.
C2_Witness ==
    /\ pc = "marshalled" /\ mobj = SInt("int", I64(128))
    /\ Flatten(mres.ws) = <<209, 0, 128>>

UnsignedWidth(u) ==
    CASE ULe(u, L4(255)) -> 1
      [] ULe(u, L4(65535)) -> 2
      [] ULe(u, MaxUint32) -> 4
      [] OTHER -> 8

UnsignedTag(w) == CASE w = 1 -> 204 [] w = 2 -> 205 [] w = 4 -> 206 [] w = 8 -> 207

\* C3: for every unsigned integer input (uint, uint8, uint16, uint32, uint64,
\* uintptr) with value u, Marshal emits the smallest of uint 8, uint 16,
\* uint 32, uint 64 (tags 0xcc-0xcf) that can hold u, and never a fixint or a
\* signed tag, even when u is at most 127.
C3_UnsignedMinimal ==
    (pc = "marshalled" /\ mobj.t = "uint") =>
        LET w == UnsignedWidth(mobj.u)
        IN  /\ mres.err = "nil"
            /\ Flatten(mres.ws) = <<UnsignedTag(w)>> \o LastBytes(LimbBytes(mobj.u), w)
            /\ Flatten(mres.ws)[1] \in 204..207

\* 5 as a uint8 is written as uint 8, not as a fixint.
C3_Witness ==
    /\ pc = "marshalled" /\ mobj = UInt("uint8", L4(5))
    /\ Flatten(mres.ws) = <<204, 5>>

\* C4: a float32 input is always encoded as wire float 32 (tag 0xca) and a
\* float64 input as wire float 64 (tag 0xcb); a float64 is never narrowed to
\* float 32, even when its value is exactly representable in 32 bits.
C4_FloatWidth ==
    /\ (pc = "marshalled" /\ mobj.t = "float32") =>
          (mres.err = "nil" /\ Flatten(mres.ws) = <<202>> \o LimbBytes(mobj.bits))
    /\ (pc = "marshalled" /\ mobj.t = "float64") =>
          (mres.err = "nil" /\ Flatten(mres.ws) = <<203>> \o LimbBytes(mobj.bits))

\* 1.0 as a float64 takes nine bytes.
C4_Witness ==
    /\ pc = "marshalled" /\ mobj = F64(<<16368, 0, 0, 0>>)
    /\ Flatten(mres.ws) = <<203, 63, 240, 0, 0, 0, 0, 0, 0>>

\* The family of length prefixes of an object: "string", "bytes", "array",
\* "map", "ext", or "none".
Family(obj) ==
    CASE obj.t = "length" -> obj.of
      [] obj.t \in {"string", "bytes", "ext"} -> obj.t
      [] obj.t \in {"array", "slice"} -> "array"
      [] obj.t \in {"map", "strmap", "gmap"} -> "map"
      [] OTHER -> "none"

\* The byte or element count of an object.
Count(obj) ==
    CASE obj.t = "length" -> obj.u
      [] obj.t = "string" -> L4(Len(obj.s))
      [] obj.t = "bytes" -> L4(Len(obj.b))
      [] obj.t = "ext" -> L4(Len(obj.data))
      [] obj.t \in {"array", "slice"} -> L4(Len(obj.a))
      [] obj.t \in {"map", "gmap"} -> L4(Len(obj.kvs))
      [] obj.t = "strmap" -> L4(Len(obj.skvs))

\* The smallest length prefix of a family that holds n <= 2^32-1, from the
\* format's table: the short form where the family has one, else the
\* narrowest of the 8, 16 and 32 bit forms the family has.
SmallestPrefix(family, n) ==
    LET short == CASE family = "string" -> 31
                   [] family \in {"array", "map"} -> 15
                   [] OTHER -> -1
        base == CASE family = "string" -> 160 [] family = "array" -> 144
                  [] family = "map" -> 128 [] OTHER -> 0
        has8 == family \in {"string", "bytes", "ext"}
        tag8 == CASE family = "string" -> 217 [] family = "bytes" -> 196
                  [] family = "ext" -> 199 [] OTHER -> 0
        tag16 == CASE family = "string" -> 218 [] family = "bytes" -> 197
                   [] family = "array" -> 220 [] family = "map" -> 222
                   [] family = "ext" -> 200
    IN  CASE short >= 0 /\ ULe(n, L4(short)) -> <<base + n[4]>>
          [] has8 /\ ULe(n, L4(255)) -> <<tag8>> \o LastBytes(LimbBytes(n), 1)
          [] ULe(n, L4(65535)) -> <<tag16>> \o LastBytes(LimbBytes(n), 2)
          [] OTHER -> <<tag16 + 1>> \o LastBytes(LimbBytes(n), 4)

StartsWith(s, p) == Len(s) >= Len(p) /\ SubSeq(s, 1, Len(p)) = p

\* The application marshal transformer of the call leaves the object as it is.
Untransformed ==
    ApplicationMarshalTransformer(mopts.ApplicationMarshalTransformer, mobj).obj = mobj

\* C5: for strings, byte slices, arrays and maps with byte or element count
\* n, Marshal writes the smallest length prefix of that type's family able to
\* hold n (fixstr for n <= 31, fixarray/fixmap for n <= 15, otherwise the
\* narrowest 8/16/32-bit form the family has), and returns
\* ObjectTooBigForMarshallingError when n exceeds 2^32-1.
C5_SmallestPrefix ==
    (pc \in {"marshalled", "prefixed", "long"}
       /\ Family(mobj) \in {"string", "bytes", "array", "map"}
       /\ Untransformed) =>
        IF ULe(Count(mobj), MaxUint32)
        THEN /\ pc = "marshalled" =>
                  StartsWith(Flatten(mres.ws), SmallestPrefix(Family(mobj), Count(mobj)))
             /\ pc = "prefixed" =>
                  (mres.err = "nil"
                     /\ Flatten(mres.ws) = SmallestPrefix(Family(mobj), Count(mobj)))
             /\ pc = "long" =>
                  (mres.err = "nil"
                     /\ mres.ws = <<SmallestPrefix(Family(mobj), Count(mobj)),
                                    Repeat(0, Count(mobj))>>)
        ELSE mres = Failed(ObjectTooBigForMarshallingError)

\* A string of 32 bytes was marshalled with a str 8 prefix.
C5_Witness ==
    /\ pc = "marshalled" /\ mobj = Str(Filler(32))
    /\ StartsWith(Flatten(mres.ws), <<217, 32>>)

\* The extension tag the format's table gives for L <= 2^32-1 bytes of data.
ExtForm(L) ==
    CASE L = L4(1) -> <<212>>
      [] L = L4(2) -> <<213>>
      [] L = L4(4) -> <<214>>
      [] L = L4(8) -> <<215>>
      [] L = L4(16) -> <<216>>
      [] OTHER -> SmallestPrefix("ext", L)

\* C6: an extension with payload length L is encoded with the fixext form
\* when L is 1, 2, 4, 8 or 16, and otherwise (including L = 0) with the
\* narrowest of ext 8/16/32 able to hold L; in every form the layout is tag,
\* length field (if any), extension-type byte, then the payload bytes.
C6_ExtensionForm ==
    /\ (pc = "marshalled" /\ mobj.t = "ext") =>
          /\ mres.err = "nil"
          /\ Flatten(mres.ws) =
                ExtForm(L4(Len(mobj.data))) \o <<mobj.et % 256>> \o mobj.data
    /\ (pc = "long" /\ mobj.of = "ext" /\ ULe(mobj.u, MaxUint32)) =>
          (mres.err = "nil"
             /\ mres.ws = <<ExtForm(mobj.u), <<18>>, Repeat(0, mobj.u)>>)

\* An extension with no data was marshalled as ext 8 with length 0.
C6_Witness ==
    /\ pc = "marshalled" /\ mobj = Ext(127, <<>>)
    /\ Flatten(mres.ws) = <<199, 0, 127>>

\* What marshalObject is called with for the parts of an object, in the order
\* they are written.
Children(obj) ==
    CASE obj.t \in {"array", "slice"} -> obj.a
      [] obj.t \in {"map", "gmap"} ->
            [j \in 1..(2 * Len(obj.kvs)) |-> obj.kvs[(j + 1) \div 2][2 - (j % 2)]]
      [] obj.t = "strmap" ->
            [j \in 1..(2 * Len(obj.skvs)) |->
                IF j % 2 = 1 THEN [t |-> "key", s |-> obj.skvs[(j + 1) \div 2][1]]
                ELSE obj.skvs[j \div 2][2]]
      [] OTHER -> <<>>

\* The key of a map[string]any is written by marshalString.
EncodedLen(opts, obj) ==
    IF obj.t = "key" THEN Len(Flatten(On(Buffer, marshalString(obj.s)).ws))
    ELSE Len(Flatten(Marshal(opts, obj).ws))

RECURSIVE Starts(_, _)
RECURSIVE StartsFrom(_, _, _, _)
\* The offsets, in the encoding of obj, where the encoding of a value begins:
\* obj itself and, after the container's length prefix, each of its parts.
Starts(opts, obj) ==
    {0} \cup
    IF Family(obj) \in {"array", "map"}
    THEN StartsFrom(opts, Children(obj), 1,
                    Len(SmallestPrefix(Family(obj), Count(obj))))
    ELSE {}

StartsFrom(opts, cs, j, off) ==
    IF j > Len(cs) THEN {}
    ELSE {off + s : s \in Starts(opts, cs[j])}
         \cup StartsFrom(opts, cs, j + 1, off + EncodedLen(opts, cs[j]))

\* C7: for every input value and every option set, no value encoded by
\* Marshal (top-level or nested) begins with the reserved tag byte 0xc1; 0xc1
\* occurs in the output only as a length, extension-type or payload byte.
C7_NoReservedTag ==
    (pc = "marshalled" /\ mres.err = "nil") =>
        \A s \in Starts(mopts, mobj) : Flatten(mres.ws)[s + 1] # 193

\* An array whose element is written as cc c1: 0xc1 as a payload byte.
C7_Witness ==
    /\ pc = "marshalled" /\ mobj.t = "array" /\ Len(mobj.a) = 2
    /\ mobj.a[1] = Nil /\ mobj.a[2] = Arr(<<UInt("uint", L4(193))>>)
    /\ Flatten(mres.ws) = <<146, 192, 145, 204, 193>>

\* C8: for every valid encoding of m bytes, Unmarshal given only its first k
\* bytes returns io.EOF when k = 0 and io.ErrUnexpectedEOF for every
\* 0 < k < m, including when the cut falls exactly between a tag byte and the
\* field that follows it, or between two elements of a container.
C8_Truncation ==
    (pc = "unmarshalled" /\ mres.err = "nil"
       /\ StartsWith(Flatten(mres.ws), rdata) /\ Len(rdata) < Len(Flatten(mres.ws)))
    => ures.err = IF Len(rdata) = 0 THEN EOF ELSE ErrUnexpectedEOF

\* The inputs of C9: a length prefix declaring many bytes of payload, then a
\* few bytes; or one declaring many elements of an array, then a few bytes,
\* which are elements of it, well-formed or not.
HugePayloadInputs ==
    {p \o t : p \in HugePayloadPrefixes, t \in SeqsUpTo(TailBytes, MaxTail)}

ArrayTails == SeqsUpTo(TailBytes, MaxTail) \cup ElementsInError

HugeArrayInputs == {p \o t : p \in HugeArrayPrefixes, t \in ArrayTails}

IOErrors == {EOF, ErrUnexpectedEOF}

\* The error of the first element among the bytes t that is in error by
\* itself under opts, "nil" when there is none: the reserved byte 0xc1, a
\* timestamp extension of one byte when the standard transformer is applied,
\* an array as a map key when unsupported keys are reported.
ElementError(opts, t) ==
    IF \E i \in 1..Len(t) : t[i] = 193 THEN InvalidFormatError
    ELSE IF t = <<212, 255, 0>> /\ ~opts.DisableStandardUnmarshalTransformer
         THEN InvalidTimestampError
    ELSE IF t = <<129, 144, 192>> /\ ~opts.DisableUnsupportedKeyTypeError
         THEN UnsupportedKeyTypeError
    ELSE "nil"

\* The buffers made hold at most one 4096-byte chunk more than the bytes
\* read, and an array was made with room for at most 1000 elements.
BoundedAllocation(rs) ==
    /\ ULe(rs.alloc, UAdd(L4(rs.pos), L4(unmarshalReadChunkSize)))
    /\ ULe(rs.cap, L4(unmarshalMaxArrayAllocElements))

\* C9 as stated: decoding an input whose length prefix declares up to 2^32-1
\* bytes or elements but which supplies only a few further bytes fails with
\* an I/O error (io.EOF or io.ErrUnexpectedEOF); by then the buffers the
\* decoder has made hold at most one 4096-byte chunk more than the bytes it
\* has read, and an array was made with room for at most 1000 elements.
C9_BoundedAllocation ==
    (pc = "unmarshalled" /\ rdata \in HugePayloadInputs \cup HugeArrayInputs) =>
        /\ ures.err \in IOErrors
        /\ BoundedAllocation(ures.rs)

\* An array 32 of 2^32-1 elements whose only byte supplied is 0xc1: the call
\* ends with InvalidFormatError, which is no I/O error.
C9_NotIOError ==
    /\ pc = "unmarshalled" /\ rdata = <<221, 255, 255, 255, 255, 193>>
    /\ ures.err = InvalidFormatError

\* C9, amended: decoding such an input fails, and by then the buffers made
\* hold at most one 4096-byte chunk more than the bytes read and an array was
\* made with room for at most 1000 elements.  The error is an I/O error
\* (io.EOF or io.ErrUnexpectedEOF) when the bytes supplied are payload, or are
\* elements of the array none of which is in error by itself; otherwise it is
\* the error of the first element that is in error.
C9_BoundedAllocationOrElementError ==
    /\ (pc = "unmarshalled" /\ rdata \in HugePayloadInputs) =>
            /\ ures.err \in IOErrors
            /\ BoundedAllocation(ures.rs)
    /\ \A p \in HugeArrayPrefixes, t \in ArrayTails :
            (pc = "unmarshalled" /\ rdata = p \o t) =>
                /\ ElementError(uopts, t) = "nil" => ures.err \in IOErrors
                /\ ElementError(uopts, t) # "nil" => ures.err = ElementError(uopts, t)
                /\ BoundedAllocation(ures.rs)

\* A str 32 of 2^32-1 bytes with two bytes of payload: one chunk was made.
C9_PayloadWitness ==
    /\ pc = "unmarshalled" /\ rdata = <<219, 255, 255, 255, 255, 1, 192>>
    /\ ures.err = ErrUnexpectedEOF
    /\ ures.rs.alloc = L4(1 + 4 + unmarshalReadChunkSize)

\* An array 32 of 2^32-1 elements with two elements supplied, the second the
\* reserved byte: the array was made with room for 1000 elements, one element
\* was decoded, and the call ended with the error of the second.
C9_Witness ==
    /\ pc = "unmarshalled" /\ rdata = <<221, 255, 255, 255, 255, 1, 193>>
    /\ ures.err = InvalidFormatError
    /\ ures.rs.cap = L4(unmarshalMaxArrayAllocElements)
    /\ BoundedAllocation(ures.rs)

\* The keys of the hand-written maps that Unmarshal accepts as map keys.
SupportedWireKeys == WireKeys \ {<<196, 0>>, <<144>>}

\* C10: when a map on the wire contains two entries with identical keys,
\* Unmarshal returns DuplicateKeyError under default options; with
\* DisableDuplicateKeyError set it succeeds and the resulting map holds, for
\* that key, the value of the first of those entries.
C10_DuplicateKeys ==
    \A k \in SupportedWireKeys, v1, v2 \in WireValues :
        (pc = "unmarshalled" /\ rdata = <<130>> \o k \o v1 \o k \o v2) =>
            /\ uopts = DefaultUnmarshalOptions => ures.err = DuplicateKeyError
            /\ uopts = [DefaultUnmarshalOptions EXCEPT !.DisableDuplicateKeyError = TRUE]
               => /\ ures.err = "nil"
                  /\ ures.obj = AnyMap(<<<<Unmarshal(uopts, k).obj,
                                           Unmarshal(uopts, v1).obj>>>>)

\* The entries of a map of n entries written in d from rs on, each key and
\* value unmarshalled on its own.
RECURSIVE EntriesFrom(_, _, _, _)
EntriesFrom(opts, d, rs, n) ==
    IF n = 0 THEN <<>>
    ELSE LET k == unmarshalObject(opts, d, rs)
             v == unmarshalObject(opts, d, k.rs)
         IN  <<[k |-> k, v |-> v]>> \o EntriesFrom(opts, d, v.rs, n - 1)

\* The reader holds a fixmap all of whose keys and values are well-formed.
IsFixmap(d) == Len(d) > 0 /\ d[1] \in 128..143

FixmapEntries(opts, d) == EntriesFrom(opts, d, readByte(d, NewReader).rs, d[1] - 128)

WellFormedEntries(es) == \A i \in 1..Len(es) : es[i].k.err = "nil" /\ es[i].v.err = "nil"

\* Entry i repeats the key of an earlier entry with a key-eligible key.
RepeatsKey(es, i) ==
    es[i].k.key /\ \E j \in 1..(i - 1) : es[j].k.key /\ KeyEq(es[j].k.obj, es[i].k.obj)

\* C11: when the key of a map entry is not key-eligible, Unmarshal returns
\* UnsupportedKeyTypeError under default options (decoding stops at the first
\* entry that is in error); with DisableUnsupportedKeyTypeError set the entry
\* is dropped, so the keys of every successfully decoded map are exactly the
\* keys the decoder marked key-eligible (a key equal to an earlier one, as
\* +0.0 and -0.0 are, being held once).  The same holds for a map nested in
\* an array.
C11_UnsupportedKeys ==
    /\ (pc = "unmarshalled" /\ IsFixmap(rdata)
           /\ WellFormedEntries(FixmapEntries(uopts, rdata))) =>
          LET es == FixmapEntries(uopts, rdata)
              bad == {i \in 1..Len(es) : ~es[i].k.key}
              rep == {i \in 1..Len(es) : RepeatsKey(es, i)}
          IN  /\ (bad # {} /\ ~uopts.DisableUnsupportedKeyTypeError
                    /\ (uopts.DisableDuplicateKeyError
                          \/ \A i \in rep : \E j \in bad : j < i))
                 => ures.err = UnsupportedKeyTypeError
              /\ (uopts.DisableUnsupportedKeyTypeError
                    /\ (uopts.DisableDuplicateKeyError \/ rep = {}))
                 => ures.err = "nil"
              /\ ures.err = "nil"
                 => /\ ures.obj.t = "map"
                    /\ \A j \in 1..Len(ures.obj.kvs) : \E i \in (1..Len(es)) \ bad :
                          ures.obj.kvs[j][1] = es[i].k.obj
                    /\ \A i \in (1..Len(es)) \ bad : \E j \in 1..Len(ures.obj.kvs) :
                          \/ ures.obj.kvs[j][1] = es[i].k.obj
                          \/ KeyEq(ures.obj.kvs[j][1], es[i].k.obj)
    /\ (pc = "unmarshalled" /\ rdata = <<145, 129, 196, 0, 42>>) =>
          IF uopts.DisableUnsupportedKeyTypeError
          THEN ures.err = "nil" /\ ures.obj = Arr(<<AnyMap(<<>>)>>)
          ELSE ures.err = UnsupportedKeyTypeError

\* With DisableUnsupportedKeyTypeError, of the entries {bin: 42, 12: 43} only
\* the second came back.
C11_Witness ==
    /\ pc = "unmarshalled" /\ rdata = <<130, 196, 0, 42, 12, 43>>
    /\ uopts.DisableUnsupportedKeyTypeError
    /\ ures.err = "nil"
    /\ ures.obj = AnyMap(<<<<SInt("int", I64(12)), SInt("int", I64(43))>>>>)

\* The tag bytes of nil, the booleans, the integers, the floats and the strings.
KeyEligibleTag(b) ==
    \/ b <= 127 \/ b >= 224                  \* positive and negative fixint
    \/ b \in {192, 194, 195}                 \* nil, false, true
    \/ b \in 202..211                        \* float 32/64, uint 8..64, int 8..64
    \/ b \in 160..191 \/ b \in 217..219      \* fixstr, str 8/16/32

\* The type of the value a tag byte announces.
TagType(b) ==
    CASE b <= 127 \/ b >= 224 \/ b \in 208..211 -> "int"
      [] b \in 204..207 -> "uint"
      [] b = 192 -> "nil"
      [] b \in {194, 195} -> "bool"
      [] b = 202 -> "float32"
      [] b = 203 -> "float64"
      [] b \in 160..191 \/ b \in 217..219 -> "string"
      [] b \in 196..198 -> "bytes"
      [] b \in 144..159 \/ b \in {220, 221} -> "array"
      [] b \in 128..143 \/ b \in {222, 223} -> "map"
      [] b \in 199..201 \/ b \in 212..216 -> "ext"
      [] OTHER -> "reserved"

\* C12: the decoder marks nil, booleans, signed and unsigned integers, floats
\* and strings as key-eligible and binary, arrays, maps and unresolved
\* extensions as not key-eligible, in every wire form (fix, 8, 16, 32 and
\* 64-bit): as the result of Unmarshal, and as the key of a map.
C12_KeyEligibility ==
    /\ (pc = "unmarshalled" /\ ures.err = "nil") =>
          /\ KeyEligibleTag(rdata[1]) => (ures.key /\ ures.obj.t = TagType(rdata[1]))
          /\ ures.obj.t \in {"nil", "bool", "int", "uint", "float32", "float64", "string"}
                => ures.key
          /\ ures.obj.t \in {"bytes", "array", "map", "ext"}
                => (~ures.key /\ ures.obj.t = TagType(rdata[1]))
    /\ \A f \in FormInputs :
          (pc = "unmarshalled" /\ rdata = <<129>> \o f \o <<42>>
             /\ ~uopts.DisableUnsupportedKeyTypeError) =>
              /\ ures.err = IF KeyEligibleTag(f[1]) THEN "nil" ELSE UnsupportedKeyTypeError
              /\ KeyEligibleTag(f[1]) =>
                    ures.obj = AnyMap(<<<<Unmarshal(uopts, f).obj, SInt("int", I64(42))>>>>)

\* "12" as a str 32 was accepted as the key of a map.
C12_Witness ==
    /\ pc = "unmarshalled" /\ rdata = <<129, 219, 0, 0, 0, 2, 49, 50, 42>>
    /\ uopts = DefaultUnmarshalOptions
    /\ ures.err = "nil"
    /\ ures.obj = AnyMap(<<<<Str(<<49, 50>>), SInt("int", I64(42))>>>>)

\* The length of the header (tag and length bytes) and of the payload that the
\* first bytes of an extension announce; an ext 32 of 65536 bytes and more is
\* not looked at.
ExtHeaderLen(d) ==
    CASE d[1] \in 212..216 -> 1
      [] d[1] = 199 -> 2
      [] d[1] = 200 -> 3
      [] d[1] = 201 -> 5

ExtPayloadLen(d) ==
    CASE d[1] = 212 -> 1
      [] d[1] = 213 -> 2
      [] d[1] = 214 -> 4
      [] d[1] = 215 -> 8
      [] d[1] = 216 -> 16
      [] d[1] = 199 -> d[2]
      [] d[1] = 200 -> d[2] * 256 + d[3]
      [] d[1] = 201 -> d[4] * 256 + d[5]

\* d is exactly one extension: tag, length, type byte and payload.
IsExtWire(d) ==
    /\ Len(d) >= 3
    /\ d[1] \in 199..201 \/ d[1] \in 212..216
    /\ d[1] = 201 => (Len(d) >= 6 /\ d[2] = 0 /\ d[3] = 0)
    /\ Len(d) = ExtHeaderLen(d) + 1 + ExtPayloadLen(d)

\* Its type, as a signed byte, and its payload.
ExtWireType(d) ==
    LET t == d[ExtHeaderLen(d) + 1] IN IF t >= 128 THEN t - 256 ELSE t

ExtWirePayload(d) == SubSeq(d, ExtHeaderLen(d) + 2, Len(d))

\* The extension types the transformers of opts resolve.
ResolvedTypes(opts) ==
    (IF opts.DisableStandardUnmarshalTransformer THEN {} ELSE {-1})
    \cup (IF opts.ApplicationUnmarshalTransformer = "unmarshalDuration" THEN {42} ELSE {})
    \cup (IF opts.ApplicationUnmarshalTransformer = "timestampOverride" THEN {-1} ELSE {})

\* C13: for every extension type t in -128..127 that no transformer resolves
\* and every wire form (fixext 1/2/4/8/16, ext 8/16/32), Unmarshal returns an
\* UnresolvedExtensionType whose ExtensionType is t, with its sign, and whose
\* Data is exactly the payload bytes; that value is not key-eligible, so as
\* the key of a one-entry map (whose value is a fixint) it is an
\* UnsupportedKeyTypeError.
C13_UnresolvedExtension ==
    /\ (pc = "unmarshalled" /\ IsExtWire(rdata)
           /\ ExtWireType(rdata) \notin ResolvedTypes(uopts)) =>
          /\ ures.err = "nil"
          /\ ures.obj = Ext(ExtWireType(rdata), ExtWirePayload(rdata))
          /\ ExtWireType(rdata) \in -128..127
          /\ ~ures.key
    /\ (pc = "unmarshalled" /\ Len(rdata) > 2 /\ rdata[1] = 129
           /\ rdata[Len(rdata)] <= 127
           /\ IsExtWire(SubSeq(rdata, 2, Len(rdata) - 1))
           /\ ExtWireType(SubSeq(rdata, 2, Len(rdata) - 1)) \notin ResolvedTypes(uopts)) =>
          IF uopts.DisableUnsupportedKeyTypeError
          THEN ures.err = "nil" /\ ures.obj = AnyMap(<<>>)
          ELSE ures.err = UnsupportedKeyTypeError

\* An ext 16 of type -128 came back with its three bytes.
C13_Witness ==
    /\ pc = "unmarshalled" /\ rdata = <<200, 0, 3, 128, 0, 1, 2>>
    /\ uopts = DefaultUnmarshalOptions
    /\ ures.err = "nil" /\ ~ures.key
    /\ ures.obj = Ext(-128, <<0, 1, 2>>)

\* What a payload p of extension type -1 stands for: the time, or no time.
\*   4 bytes:  seconds (32 bits, unsigned), no nanoseconds
\*   8 bytes:  nanoseconds in the top 30 bits, seconds in the low 34 bits
\*   12 bytes: nanoseconds (32 bits), then seconds (64 bits, signed)
TimestampOf(p) ==
    CASE Len(p) = 4 -> Time(<<0, 0, p[1] * 256 + p[2], p[3] * 256 + p[4]>>, 0)
      [] Len(p) = 8 ->
            LET nsec == ((p[1] * 256 + p[2]) * 256 + p[3]) * 64 + p[4] \div 4
            IN  IF nsec >= 1000000000 THEN [t |-> "invalid"]
                ELSE Time(<<0, p[4] % 4, p[5] * 256 + p[6], p[7] * 256 + p[8]>>, nsec)
      [] Len(p) = 12 ->
            LET hi == p[1] * 256 + p[2]
                lo == p[3] * 256 + p[4]
            IN  IF hi > 15258 \/ (hi = 15258 /\ lo >= 51712) THEN [t |-> "invalid"]
                ELSE Time(<<p[5] * 256 + p[6], p[7] * 256 + p[8],
                            p[9] * 256 + p[10], p[11] * 256 + p[12]>>, hi * 65536 + lo)
      [] OTHER -> [t |-> "invalid"]

\* C14: a type -1 (timestamp) extension payload is decoded as: length 4 ->
\* 32-bit unsigned seconds with 0 nanoseconds; length 8 -> nanoseconds in the
\* top 30 bits and seconds in the low 34 bits; length 12 -> 32-bit nanoseconds
\* followed by 64-bit signed seconds; any other length, or nanoseconds of
\* 1,000,000,000 and more, yields InvalidTimestampError. (Stated for calls
\* whose application transformer leaves a time.Time as it is.)
C14_TimestampDecoding ==
    (pc = "unmarshalled" /\ IsExtWire(rdata) /\ ExtWireType(rdata) = -1
       /\ ~uopts.DisableStandardUnmarshalTransformer
       /\ uopts.ApplicationUnmarshalTransformer # "timeAsUnix") =>
        LET t == TimestampOf(ExtWirePayload(rdata))
        IN  IF t.t = "invalid" THEN ures.err = InvalidTimestampError
            ELSE ures.err = "nil" /\ ures.obj = t

\* A timestamp 64 with 999999999 nanoseconds and 2^34-1 seconds came back.
C14_Witness ==
    /\ pc = "unmarshalled" /\ rdata = <<215, 255, 238, 107, 39, 255, 255, 255, 255, 255>>
    /\ uopts = DefaultUnmarshalOptions
    /\ ures.err = "nil"
    /\ ures.obj = Time(<<0, 3, 65535, 65535>>, 999999999)

\* The timestamp forms that can hold a time exactly, by the number of
\* payload bytes.
TimestampFits(t, n) ==
    CASE n = 4 -> t.nsec = 0 /\ t.sec[1] = 0 /\ t.sec[2] = 0
      [] n = 8 -> t.sec[1] = 0 /\ t.sec[2] < 4
      [] n = 12 -> TRUE

\* The encoding of a time in the timestamp form of n payload bytes.
TimestampEncoding(t, n) ==
    CASE n = 4 -> <<214, 255>> \o LimbBytes(<<t.sec[3], t.sec[4]>>)
      [] n = 8 -> <<215, 255, t.nsec \div 4194304, (t.nsec \div 16384) % 256,
                    (t.nsec \div 64) % 256, (t.nsec % 64) * 4 + t.sec[2]>>
                  \o LimbBytes(<<t.sec[3], t.sec[4]>>)
      [] n = 12 -> <<199, 12, 255, t.nsec \div 16777216, (t.nsec \div 65536) % 256,
                     (t.nsec \div 256) % 256, t.nsec % 256>> \o LimbBytes(t.sec)

\* The most compact form that holds t.
MostCompactTimestamp(t) ==
    TimestampEncoding(t, CHOOSE n \in {4, 8, 12} :
                             /\ TimestampFits(t, n)
                             /\ \A k \in {4, 8, 12} : TimestampFits(t, k) => n <= k)

\* C15: Marshal encodes a time.Time in the most compact timestamp form that
\* represents it exactly: timestamp 32 (fixext 4) when nanoseconds = 0 and
\* 0 <= seconds <= 2^32-1; otherwise timestamp 64 (fixext 8) when
\* 0 <= seconds < 2^34; otherwise timestamp 96 (ext 8 with a 12-byte
\* payload), the only form used for negative seconds.  The same holds for a
\* time.Time that is the first element of an array.
C15_TimestampEncoding ==
    /\ (pc = "marshalled" /\ mobj.t = "time" /\ ~mopts.DisableStandardMarshalTransformer) =>
          /\ mres.err = "nil"
          /\ Flatten(mres.ws) = MostCompactTimestamp(mobj)
          /\ TimestampOf(ExtWirePayload(Flatten(mres.ws))) = mobj
          /\ mobj.sec[1] >= 32768 => Flatten(mres.ws)[1] = 199
    /\ (pc = "marshalled" /\ mobj.t = "array" /\ Len(mobj.a) \in 1..15
           /\ mobj.a[1].t = "time" /\ ~mopts.DisableStandardMarshalTransformer
           /\ mres.err = "nil") =>
          StartsWith(Tail(Flatten(mres.ws)), MostCompactTimestamp(mobj.a[1]))

\* -1 second was written as a timestamp 96.
C15_Witness ==
    /\ pc = "marshalled" /\ mobj = Time(I64(-1), 0) /\ mopts = DefaultMarshalOptions
    /\ Flatten(mres.ws) = <<199, 12, 255, 0, 0, 0, 0, 255, 255, 255, 255, 255, 255, 255, 255>>

----------------------------------------------------------------------------
(* C16: the order of the marshal transformers *)

\* What the transformers make of one value: the application transformer,
\* then the standard transformer on its output.
Transformed(opts, obj) ==
    LET a == ApplicationMarshalTransformer(opts.ApplicationMarshalTransformer, obj).obj
    IN  IF opts.DisableStandardMarshalTransformer THEN a
        ELSE StandardMarshalTransformer(a).obj

\* The values a container holds, keys before their values, every key as a value.
Parts(obj) ==
    IF obj.t = "strmap"
    THEN [j \in 1..(2 * Len(obj.skvs)) |->
            IF j % 2 = 1 THEN Str(obj.skvs[(j + 1) \div 2][1])
            ELSE obj.skvs[j \div 2][2]]
    ELSE Children(obj)

NoMarshalTransformers ==
    [DisableStandardMarshalTransformer |-> TRUE, ApplicationMarshalTransformer |-> "nil"]

\* The bytes claim C16 describes: each value is transformed, then encoded, and
\* the parts of a container are treated the same way.
RECURSIVE ClaimedEncoding(_, _)
RECURSIVE ClaimedParts(_, _, _)
ClaimedParts(opts, ps, j) ==
    IF j > Len(ps) THEN <<>>
    ELSE ClaimedEncoding(opts, ps[j]) \o ClaimedParts(opts, ps, j + 1)

ClaimedEncoding(opts, obj) ==
    LET v == Transformed(opts, obj)
    IN  CASE v.t \in {"array", "slice"} ->
                Flatten(On(Buffer, writeArrayPrefix(L4(Len(v.a)))).ws) \o ClaimedParts(opts, Parts(v), 1)
          [] v.t \in {"map", "gmap", "strmap"} ->
                Flatten(On(Buffer, writeMapPrefix(L4(Len(Parts(v)) \div 2))).ws)
                    \o ClaimedParts(opts, Parts(v), 1)
          [] OTHER -> MarshalToBytes(NoMarshalTransformers, v).bytes

\* C16: the bytes Marshal writes for a value are those of transforming the value
\* with the application marshal transformer, then (unless disabled) with the
\* standard marshal transformer, and then encoding the result, where every
\* element, map key and map value of a container is handled in the same way.
C16_TransformOrder ==
    (pc = "marshalled" /\ mres.err = "nil") =>
        Flatten(mres.ws) = ClaimedEncoding(mopts, mobj)

\* The same statement without the keys of a map[string]any, which
\* marshalStringMap writes with marshalString.
HasStringMapKey(obj) ==
    \/ obj.t = "strmap" /\ obj.skvs # <<>>
    \/ \E j \in DOMAIN Parts(obj) : Parts(obj)[j].t = "strmap" /\ Parts(obj)[j].skvs # <<>>

C16_OrderExceptStringMapKeys ==
    (pc = "marshalled" /\ mres.err = "nil" /\ ~HasStringMapKey(mobj)) =>
        Flatten(mres.ws) = ClaimedEncoding(mopts, mobj)

C16_OrderWitness ==
    /\ pc = "marshalled"
    /\ mopts.ApplicationMarshalTransformer = "durationAsTime"
    /\ ~mopts.DisableStandardMarshalTransformer
    /\ mobj = AnyMap(<<<<Duration(L4(123)), Str(<<97>>)>>>>)
    /\ Flatten(mres.ws) = <<129, 214, 255, 0, 0, 0, 123, 161, 97>>

----------------------------------------------------------------------------
(* C17: the order of the unmarshal transformers *)

NoUnmarshalTransformers(opts) ==
    [opts EXCEPT !.DisableStandardUnmarshalTransformer = TRUE,
                 !.ApplicationUnmarshalTransformer = "nil"]

\* The wire holds one value that is not an array or a map.
IsScalarWire(d) ==
    /\ d # <<>>
    /\ ~(d[1] \in 128..159 \/ d[1] \in 220..223)

\* What claim C17 says becomes of the raw value r when opts is in force: the
\* standard transformer (unless disabled) first, the application transformer
\* on its output, and an error of the first ends the call.
TransformedRaw(opts, r) ==
    LET s == IF opts.DisableStandardUnmarshalTransformer THEN r
             ELSE StandardUnmarshalTransformer(r.obj, r.key, r.rs)
    IN  IF s.err # "nil" \/ opts.ApplicationUnmarshalTransformer = "nil" THEN s
        ELSE ApplicationUnmarshalTransformer(opts.ApplicationUnmarshalTransformer,
                                             s.obj, s.key, s.rs)

\* C17: a decoded value goes through the standard unmarshal transformer
\* (unless disabled) and then through the application unmarshal transformer,
\* which receives the value and the key-eligibility flag the standard one
\* returned; what the last transformer returns is the result of Unmarshal, the
\* element stored in an array, the value stored in a map, and (with its flag)
\* the key of a map entry.
C17_UnmarshalTransformOrder ==
    /\ (pc = "unmarshalled" /\ IsScalarWire(rdata)
          /\ Unmarshal(NoUnmarshalTransformers(uopts), rdata).err = "nil") =>
          LET x == TransformedRaw(uopts, Unmarshal(NoUnmarshalTransformers(uopts), rdata))
          IN  /\ ures.err = x.err
              /\ x.err = "nil" => (ures.obj = x.obj /\ ures.key = x.key)
    /\ (pc = "unmarshalled" /\ Len(rdata) > 1 /\ rdata[1] = 145
          /\ IsScalarWire(Tail(rdata))
          /\ Unmarshal(NoUnmarshalTransformers(uopts), Tail(rdata)).err = "nil") =>
          LET x == TransformedRaw(uopts, Unmarshal(NoUnmarshalTransformers(uopts), Tail(rdata)))
          IN  /\ ures.err = x.err
              /\ x.err = "nil" => ures.obj = Arr(<<x.obj>>)
    /\ (pc = "unmarshalled" /\ Len(rdata) > 2 /\ rdata[1] = 129
          /\ rdata[Len(rdata)] = 42
          /\ IsScalarWire(SubSeq(rdata, 2, Len(rdata) - 1))
          /\ Unmarshal(NoUnmarshalTransformers(uopts),
                       SubSeq(rdata, 2, Len(rdata) - 1)).err = "nil"
          /\ Unmarshal(NoUnmarshalTransformers(uopts),
                       SubSeq(rdata, 2, Len(rdata) - 1)).rs.pos = Len(rdata) - 2) =>
          LET x == TransformedRaw(uopts, Unmarshal(NoUnmarshalTransformers(uopts),
                                                   SubSeq(rdata, 2, Len(rdata) - 1)))
          IN  IF x.err # "nil" THEN ures.err = x.err
              ELSE IF x.key
                   THEN ures.err = "nil"
                          /\ ures.obj = AnyMap(<<<<x.obj, SInt("int", I64(42))>>>>)
              ELSE IF uopts.DisableUnsupportedKeyTypeError
                   THEN ures.err = "nil" /\ ures.obj = AnyMap(<<>>)
              ELSE ures.err = UnsupportedKeyTypeError

\* A timestamp decoded with the standard transformer enabled and an
\* application transformer for type -1: the standard one resolved it first.
C17_Witness ==
    /\ pc = "unmarshalled"
    /\ rdata = <<214, 255, 0, 0, 0, 123>>
    /\ ~uopts.DisableStandardUnmarshalTransformer
    /\ uopts.ApplicationUnmarshalTransformer = "timestampOverride"
    /\ ures.err = "nil"
    /\ ures.obj = Time(L4(123), 0)

\* The application transformer worked on the time.Time of the standard one,
\* in a map key.
C17_KeyWitness ==
    /\ pc = "unmarshalled"
    /\ rdata = <<129, 214, 255, 0, 0, 0, 1, 42>>
    /\ uopts.ApplicationUnmarshalTransformer = "timeAsUnix"
    /\ ures.err = "nil"
    /\ ures.obj = AnyMap(<<<<SInt("int64", L4(1)), SInt("int", I64(42))>>>>)

----------------------------------------------------------------------------
(* C18: extension functions, in registration order *)

\* The extension functions of a call in the order claim C18 gives them: the
\* application's, as registered, then the standard ones.
Resolvers(opts) == opts.ApplicationMarshalExtensions \o standardMarshalExtensions

ResolverResult(name, obj) ==
    IF name = "marshalToTimestampExtensionType" THEN marshalToTimestampExtensionType(obj)
    ELSE MarshalToExtensionTypeFn(name, obj)

\* The positions of the functions that claim obj.
Claiming(opts, obj) ==
    {i \in DOMAIN Resolvers(opts) :
        ResolverResult(Resolvers(opts)[i], obj).err # FunctionDoesNotApply}

\* What the first function claiming obj returns.
FirstClaim(opts, obj) ==
    LET i == CHOOSE k \in Claiming(opts, obj) : \A j \in Claiming(opts, obj) : k <= j
    IN  ResolverResult(Resolvers(opts)[i], obj)

\* obj is of no built-in type, some function claims it, and the first one that
\* does returns an extension type of its range.
Resolved(opts, obj) ==
    /\ obj.t \in {"time", "duration", "struct"}
    /\ Claiming(opts, obj) # {}
    /\ FirstClaim(opts, obj).err = "nil"
    /\ FirstClaim(opts, obj).et \in -128..127

ExtensionBytes(e) == Flatten(On(Buffer, marshalExtensionType(e.et, e.data)).ws)

\* C18: for a value of no built-in type, the application's extension
\* functions (types 0..127) are tried in registration order and before the
\* standard ones (types -128..-1); the extension written has the type and the
\* payload returned by the first function that claims the value, whatever the
\* functions after it would return.  The same holds for the elements of an
\* array.
C18_FirstResolverWins ==
    /\ (pc = "returned" /\ Resolved(mopts, mobj)) =>
          /\ mres.err = "nil"
          /\ Flatten(mres.ws) = ExtensionBytes(FirstClaim(mopts, mobj))
          /\ \A i \in Claiming(mopts, mobj) :
                ResolverResult(Resolvers(mopts)[i], mobj).et >= 0
                    <=> i <= Len(mopts.ApplicationMarshalExtensions)
    /\ (pc = "returned" /\ mobj.t = "array" /\ Len(mobj.a) = 2
          /\ \A j \in 1..2 : Resolved(mopts, mobj.a[j])) =>
          /\ mres.err = "nil"
          /\ Flatten(mres.ws) = <<146>> \o ExtensionBytes(FirstClaim(mopts, mobj.a[1]))
                                        \o ExtensionBytes(FirstClaim(mopts, mobj.a[2]))

\* Two functions for time.Duration were registered, type 6 before type 5, and
\* type 6 was written.
C18_Witness ==
    /\ pc = "returned"
    /\ mopts.ApplicationMarshalExtensions = <<"durationExt6", "durationExt5">>
    /\ mobj = Duration(L4(123))
    /\ mres.err = "nil"
    /\ Flatten(mres.ws) = <<212, 6, 1>>

\* An application function for time.Time was registered, and its type 7 was
\* written, not the timestamp.
C18_TimeWitness ==
    /\ pc = "returned"
    /\ mopts.ApplicationMarshalExtensions = <<"durationExt6", "timeExt7">>
    /\ mobj = Arr(<<Duration(L4(123)), Time(L4(1), 0)>>)
    /\ Flatten(mres.ws) = <<146, 212, 6, 1, 212, 7, 2>>

----------------------------------------------------------------------------
(* C19: transformers and termination *)

\* obj is of no built-in type and no extension function claims it.
Unencodable(opts, obj) ==
    obj.t \in {"time", "duration", "struct"} /\ Claiming(opts, obj) = {}

\* What the first transformer applying to obj makes of it.
FirstTransformed(opts, obj) ==
    firstTransformer(opts.ApplicationMarshalObjectTransformers, obj, 1)

\* C19: every Marshal call of a finite value returns, whatever transformers
\* are configured: the transformers are applied to a value at most once, so
\* when the transformed value is still not encodable (or is again of a type a
\* transformer accepts) the call returns UnsupportedTypeForMarshallingError.
C19_TransformOnce ==
    /\ pc # "crashed"
    /\ (pc = "returned" /\ Unencodable(mopts, mobj)
          /\ FirstTransformed(mopts, mobj).err = "nil"
          /\ Unencodable(mopts, FirstTransformed(mopts, mobj).obj)) =>
          mres.err = UnsupportedTypeForMarshallingError

\* The transformers never return a container.
FlatTransformers(opts) ==
    \A i \in DOMAIN opts.ApplicationMarshalObjectTransformers :
        opts.ApplicationMarshalObjectTransformers[i] # "structToArray"

\* The same statement for transformers that do not return a container holding
\* a value they accept.
C19_TransformOnceFlat ==
    /\ (pc \in {"running", "returned", "crashed"} /\ FlatTransformers(mopts)) =>
          pc # "crashed"
    /\ (pc = "returned" /\ Unencodable(mopts, mobj)
          /\ FirstTransformed(mopts, mobj).err = "nil"
          /\ Unencodable(mopts, FirstTransformed(mopts, mobj).obj)) =>
          mres.err = UnsupportedTypeForMarshallingError

\* A struct was transformed to a struct, which a transformer accepts again,
\* and the call returned UnsupportedTypeForMarshallingError.
C19_FlatWitness ==
    /\ pc = "returned"
    /\ mobj = Struct
    /\ mopts.ApplicationMarshalObjectTransformers = <<"structToStruct", "durationToInt64">>
    /\ mres.err = UnsupportedTypeForMarshallingError

----------------------------------------------------------------------------
(* C20: values no transformer makes marshallable *)

\* The types Marshal has no case for.
UnsupportedTypes == {"struct", "duration", "time"}

\* The application transformer returns an error for obj (the standard
\* transformer never does).
Rejects(opts, obj) ==
    ApplicationMarshalTransformer(opts.ApplicationMarshalTransformer, obj).err # "nil"

\* obj, or a value within it, is of an unsupported type after the configured
\* transformers have been applied to it.
RECURSIVE StillUnsupported(_, _)
StillUnsupported(opts, obj) ==
    /\ ~Rejects(opts, obj)
    /\ \/ Transformed(opts, obj).t \in UnsupportedTypes
       \/ \E j \in DOMAIN Parts(Transformed(opts, obj)) :
             StillUnsupported(opts, Parts(Transformed(opts, obj))[j])

\* The application transformer returns an error for obj or for a value
\* within it.
RECURSIVE AnyRejected(_, _)
AnyRejected(opts, obj) ==
    \/ Rejects(opts, obj)
    \/ \E j \in DOMAIN Parts(Transformed(opts, obj)) :
          AnyRejected(opts, Parts(Transformed(opts, obj))[j])

\* The first failure in the order of marshalling (a value before its parts,
\* the parts in order): the error the application transformer returns for a
\* value, or UnsupportedTypeForMarshallingError for a value the transformers
\* leave of an unsupported type; "nil" when there is none.
RECURSIVE FirstFailure(_, _)
RECURSIVE FirstFailureIn(_, _, _)
FirstFailureIn(opts, ps, j) ==
    IF j > Len(ps) THEN "nil"
    ELSE IF FirstFailure(opts, ps[j]) # "nil" THEN FirstFailure(opts, ps[j])
    ELSE FirstFailureIn(opts, ps, j + 1)

FirstFailure(opts, obj) ==
    IF Rejects(opts, obj)
    THEN ApplicationMarshalTransformer(opts.ApplicationMarshalTransformer, obj).err
    ELSE IF Transformed(opts, obj).t \in UnsupportedTypes
         THEN UnsupportedTypeForMarshallingError
    ELSE FirstFailureIn(opts, Parts(Transformed(opts, obj)), 1)

\* C20 as stated: when the value passed to Marshal, or an element, key or
\* value nested in it, is still not of a supported type after the application
\* and standard transformers have been applied, Marshal returns
\* UnsupportedTypeForMarshallingError, and MarshalToBytes returns nil and that
\* error.
C20_UnsupportedType ==
    (pc = "marshalled" /\ StillUnsupported(mopts, mobj)) =>
        /\ mres.err = UnsupportedTypeForMarshallingError
        /\ MarshalToBytes(mopts, mobj) =
              [bytes |-> <<>>, err |-> UnsupportedTypeForMarshallingError]

\* C20, amended: when such a value is passed to Marshal or nested in the
\* value passed, Marshal fails, and MarshalToBytes returns nil and the same
\* error.  The error is that of the first failure in the order of
\* marshalling: UnsupportedTypeForMarshallingError, unless the application
\* transformer has returned an error for a value marshalled before the
\* unsupported one, and then that error.
C20_UnsupportedTypeOrEarlierError ==
    (pc = "marshalled" /\ StillUnsupported(mopts, mobj)) =>
        /\ mres.err # "nil"
        /\ mres.err = FirstFailure(mopts, mobj)
        /\ ~AnyRejected(mopts, mobj) => mres.err = UnsupportedTypeForMarshallingError
        /\ MarshalToBytes(mopts, mobj) = [bytes |-> <<>>, err |-> mres.err]

\* A map whose first entry holds a time.Duration the application transformer
\* rejects and whose second entry has a struct for its key: the call returned
\* the transformer's error.
C20_Witness ==
    /\ pc = "marshalled"
    /\ mobj = AnyMap(<<<<Str(<<97>>), Duration(L4(123))>>, <<Struct, Nil>>>>)
    /\ mopts.ApplicationMarshalTransformer = "rejectDuration"
    /\ StillUnsupported(mopts, mobj)
    /\ mres.err = ErrDuration

\* A time.Duration as a map value, with a transformer that leaves it alone.
C20_LeftAloneWitness ==
    /\ pc = "marshalled"
    /\ mobj = AnyMap(<<<<Str(<<97>>), Duration(L4(123))>>>>)
    /\ mopts.ApplicationMarshalTransformer = "stringAsBytes"
    /\ mres.err = UnsupportedTypeForMarshallingError

\* A time.Time with the standard transformer disabled.
C20_TimeWitness ==
    /\ pc = "marshalled"
    /\ mobj = StringMap(<<<<<<97>>, Time(I64(0), 0)>>, <<<<98>>, Nil>>>>)
    /\ mopts.DisableStandardMarshalTransformer
    /\ mres.err = UnsupportedTypeForMarshallingError

----------------------------------------------------------------------------
(* C21: a writer that fails *)

\* All Write calls of ws but the last.
Front(ws) == SubSeq(ws, 1, Len(ws) - 1)

\* C21: when the writer fails at byte offset errAt within the encoding of a
\* value Marshal supports, Marshal returns the writer's error; the Write call
\* that failed is the last one issued (the calls before it fit in errAt
\* bytes, this one does not), and the bytes handed to the writer are the
\* beginning of the encoding.  A writer that takes the whole encoding sees all
\* of it and Marshal returns nil.
C21_WriteError ==
    (pc = "written" /\ MarshalToBytes(mopts, mobj).err = "nil") =>
        LET enc == MarshalToBytes(mopts, mobj).bytes
        IN  IF errAt < Len(enc)
            THEN /\ mres.err = ErrShortWrite
                 /\ mres.ws # <<>>
                 /\ Len(Flatten(Front(mres.ws))) <= errAt
                 /\ Len(Flatten(mres.ws)) > errAt
                 /\ Len(Flatten(mres.ws)) <= Len(enc)
                 /\ Flatten(mres.ws) = SubSeq(enc, 1, Len(Flatten(mres.ws)))
            ELSE mres.err = "nil" /\ Flatten(mres.ws) = enc

\* The writer took the array prefix and the string prefix and failed on the
\* string's bytes.
C21_Witness ==
    /\ pc = "written"
    /\ mobj = Arr(<<Str(<<104, 105>>)>>)
    /\ errAt = 2
    /\ mres.err = ErrShortWrite
    /\ mres.ws = << <<145>>, <<162>>, <<104, 105>> >>

----------------------------------------------------------------------------
(* C22: a failing element aborts the encoding *)

\* One pass over a value with the late transformers: a container writes its
\* prefix and then its parts in order and stops at the first part that fails;
\* a value that is not a container is encoded as marshalObject encodes it.
RECURSIVE onePass(_, _)
RECURSIVE onePassEach(_, _, _)
onePassEach(opts, ps, j) ==
    IF j > Len(ps) THEN Return("nil")
    ELSE Then(onePass(opts, ps[j]), onePassEach(opts, ps, j + 1))

onePass(opts, obj) ==
    CASE obj.t = "array" ->
            Then(writeArrayPrefix(L4(Len(obj.a))), onePassEach(opts, Children(obj), 1))
      [] obj.t = "map" ->
            Then(writeMapPrefix(L4(Len(obj.kvs))), onePassEach(opts, Children(obj), 1))
      [] OTHER -> lateMarshalObject(opts, obj)

\* C22: when encoding an element, key or value of a container fails, Marshal
\* returns that error and nothing is written after the point of failure: the
\* writer holds the bytes written up to that point, each of them once.
C22_ElementFailureAborts ==
    (pc = "returned" /\ mobj.t \in {"array", "map"} /\ On(Buffer, onePass(mopts, mobj)).err # "nil") =>
        /\ mres.err = On(Buffer, onePass(mopts, mobj)).err
        /\ Flatten(mres.ws) = Flatten(On(Buffer, onePass(mopts, mobj)).ws)

\* The part of the statement that holds with late transformers that leave
\* containers alone: the error of the failing part is what Marshal returns.
C22_ErrorReturned ==
    (/\ pc = "returned" /\ mobj.t \in {"array", "map"}
     /\ On(Buffer, onePass(mopts, mobj)).err # "nil"
     /\ \A j \in DOMAIN mopts.LateMarshalTransformers :
            mopts.LateMarshalTransformers[j] # "structsToNil") =>
        mres.err = On(Buffer, onePass(mopts, mobj)).err

\* []any{1, struct{}{}} without transformers: prefix and first element are in
\* the writer twice.
C22_RewrittenState ==
    /\ pc = "returned" /\ mobj = Arr(<<SInt("int", I64(1)), Struct>>)
    /\ mopts.LateMarshalTransformers = <<>>
    /\ mres.err = UnsupportedTypeForMarshallingError
    /\ Flatten(mres.ws) = <<146, 1, 146, 1>>

\* The bytes the encoder of src/encoder.go has written when a value fails: the
\* prefix of the transformed value, its parts up to the first that fails, and
\* of that part what it had written in the same way.
RECURSIVE WrittenBefore(_, _)
RECURSIVE WrittenBeforeParts(_, _, _)
WrittenBeforeParts(opts, ps, j) ==
    IF j > Len(ps) THEN [bytes |-> <<>>, err |-> "nil"]
    ELSE IF Marshal(opts, ps[j]).err = "nil"
         THEN [bytes |-> Flatten(Marshal(opts, ps[j]).ws)
                            \o WrittenBeforeParts(opts, ps, j + 1).bytes,
               err |-> WrittenBeforeParts(opts, ps, j + 1).err]
         ELSE WrittenBefore(opts, ps[j])

WrittenBefore(opts, obj) ==
    LET v == Transformed(opts, obj)
    IN  CASE v.t \in {"array", "slice"} ->
                [bytes |-> Flatten(On(Buffer, writeArrayPrefix(L4(Len(v.a)))).ws)
                              \o WrittenBeforeParts(opts, Parts(v), 1).bytes,
                 err |-> WrittenBeforeParts(opts, Parts(v), 1).err]
          [] v.t \in {"map", "gmap", "strmap"} ->
                [bytes |-> Flatten(On(Buffer, writeMapPrefix(L4(Len(Parts(v)) \div 2))).ws)
                              \o WrittenBeforeParts(opts, Parts(v), 1).bytes,
                 err |-> WrittenBeforeParts(opts, Parts(v), 1).err]
          [] OTHER -> [bytes |-> <<>>, err |-> Marshal(opts, v).err]

\* The statement of C22 for the encoder of src/encoder.go, which runs the
\* transformers before it writes anything of a value.
C22_CurrentEncoder ==
    (pc = "marshalled" /\ mres.err # "nil" /\ ~HasStringMapKey(mobj)) =>
        /\ mres.err = WrittenBefore(mopts, mobj).err
        /\ Flatten(mres.ws) = WrittenBefore(mopts, mobj).bytes

C22_CurrentEncoderState ==
    /\ pc = "marshalled" /\ mobj.t = "array" /\ Len(mobj.a) = 2
    /\ mobj.a[2] = Struct
    /\ mres.err = UnsupportedTypeForMarshallingError
    /\ Len(Flatten(mres.ws)) >= 2

----------------------------------------------------------------------------
(* C23: concurrent calls sharing one options value *)

\* C23: concurrent Marshal/Unmarshal calls that each use their own writer or
\* reader but share one options value give, for each call, the result the call
\* gives when it runs alone: a call that has returned has the error, the bytes
\* in its writer, or the value of the same call made on its own.
C23_SameAsAlone ==
    \A g \in DOMAIN gor :
        gor[g].at = "done" =>
            IF gor[g].kind = "Marshal"
            THEN /\ gor[g].err = Marshal(mopts, gor[g].obj).err
                 /\ gor[g].w = Flatten(Marshal(mopts, gor[g].obj).ws)
            ELSE /\ gor[g].res = Unmarshal(uopts, gor[g].data)
                 /\ gor[g].err = Unmarshal(uopts, gor[g].data).err

\* No step of one call changes what belongs to another call, and no step
\* changes the options.
C23_NoSharedWrites ==
    [][pc = "running" /\ pc' = "running" =>
          /\ mopts' = mopts /\ uopts' = uopts
          /\ \E g \in Goroutines : \A h \in Goroutines \ {g} : gor'[h] = gor[h]]_vars

\* Two Marshal calls have returned after their Write calls were interleaved:
\* the second call's sbuf was filled between the fill and the Write of the first.
C23_Witness ==
    /\ pc = "running"
    /\ gor[1].kind = "Marshal" /\ gor[1].obj = Str(<<104, 105>>)
    /\ gor[1].at = "done" /\ gor[1].w = <<162, 104, 105>>
    /\ gor[2].kind = "Marshal" /\ gor[2].obj = SInt("int", I64(-1000))
    /\ gor[2].at = "write" /\ gor[2].sbuf = <<209, 252, 24>> /\ gor[2].w = <<>>

\* Two Unmarshal calls are partway: the first has taken the tag and the first
\* element of its array and waits for its reader, the second has taken the tag
\* of its extension and its reader has delivered the extension type.
C23_ReadWitness ==
    /\ pc = "running"
    /\ gor[1].kind = "Unmarshal" /\ gor[1].data = <<146, 1, 2, 3>>
    /\ gor[1].at = "read" /\ gor[1].w = <<146, 1>>
    /\ gor[2].kind = "Unmarshal" /\ gor[2].data = <<214, 42, 0, 0, 0, 1>>
    /\ gor[2].at = "take" /\ gor[2].w = <<214>> /\ gor[2].sbuf = <<42>>

\* A Marshal and an Unmarshal call have both returned.
C23_MixedWitness ==
    /\ pc = "running"
    /\ gor[1].kind = "Marshal" /\ gor[1].at = "done"
    /\ gor[1].err = UnsupportedTypeForMarshallingError /\ gor[1].w # <<>>
    /\ gor[2].kind = "Unmarshal" /\ gor[2].at = "done" /\ gor[2].err = "nil"
    /\ gor[2].res.obj.t = "array"

----------------------------------------------------------------------------
(* C24: determinism of the encoding *)

\* Orders in which "for k, v := range kvs" can yield the entries of one map:
\* the order given, and that order with two entries exchanged.
IterationOrders(kvs) ==
    {kvs} \cup {[kvs EXCEPT ![i] = kvs[j], ![j] = kvs[i]] : i, j \in DOMAIN kvs}

\* The runs of Marshal on one value: they differ in the iteration order of a
\* map, at top level or as an element of an array.
RunsOfPart(obj) ==
    CASE obj.t \in {"map", "gmap"} -> {[obj EXCEPT !.kvs = q] : q \in IterationOrders(obj.kvs)}
      [] obj.t = "strmap" -> {[obj EXCEPT !.skvs = q] : q \in IterationOrders(obj.skvs)}
      [] OTHER -> {obj}

RunsOf(obj) ==
    IF obj.t = "array"
    THEN {obj} \cup UNION {{Arr([obj.a EXCEPT ![j] = p]) : p \in RunsOfPart(obj.a[j])} :
                                j \in DOMAIN obj.a}
    ELSE RunsOfPart(obj)

\* Key and value of every entry, in the order of kvs.
RECURSIVE EntriesBytes(_, _, _)
EntriesBytes(opts, kvs, i) ==
    IF i > Len(kvs) THEN <<>>
    ELSE Flatten(Marshal(opts, kvs[i][1]).ws) \o Flatten(Marshal(opts, kvs[i][2]).ws)
            \o EntriesBytes(opts, kvs, i + 1)

\* C24 as stated: marshalling the same value with the same options always
\* gives the same byte sequence, for maps with any number of entries as well.
C24_Deterministic ==
    pc = "marshalled" =>
        \A p \in RunsOf(mobj) : Marshal(mopts, p) = mres

\* The error of the first key or value, in the order of kvs, that Marshal
\* returns an error for; "nil" when there is none.
RECURSIVE FirstEntryError(_, _, _)
FirstEntryError(opts, kvs, i) ==
    IF i > Len(kvs) THEN "nil"
    ELSE IF Marshal(opts, kvs[i][1]).err # "nil" THEN Marshal(opts, kvs[i][1]).err
    ELSE IF Marshal(opts, kvs[i][2]).err # "nil" THEN Marshal(opts, kvs[i][2]).err
    ELSE FirstEntryError(opts, kvs, i + 1)

\* C24, amended: the runs on the same value either all succeed or all fail;
\* those that succeed write the same number of bytes, and can differ only
\* in the order of the entries of a map, which are written key before value
\* in the order the map is iterated in; a run that fails on a map returns the
\* error of the first entry, in that order, that cannot be marshalled.
C24_DeterministicUpToMapOrder ==
    pc = "marshalled" =>
        \A p \in RunsOf(mobj) :
            /\ (Marshal(mopts, p).err = "nil") <=> (mres.err = "nil")
            /\ mres.err = "nil" =>
                  /\ Len(Flatten(Marshal(mopts, p).ws)) = Len(Flatten(mres.ws))
                  /\ p.t = "map" =>
                        Flatten(Marshal(mopts, p).ws) =
                            Flatten(On(Buffer, writeMapPrefix(L4(Len(p.kvs)))).ws)
                                \o EntriesBytes(mopts, p.kvs, 1)
            /\ (mres.err # "nil" /\ p.t = "map") =>
                  Marshal(mopts, p).err = FirstEntryError(mopts, p.kvs, 1)

\* The runs on one value do not all return the same error: a map with a key
\* of an unsupported type in one entry and a value the application
\* transformer rejects in another was marshalled, and the run that yields the
\* entries in the other order returns the other error.
C24_ErrorsDiffer ==
    /\ pc = "marshalled" /\ mobj.t = "map" /\ Len(mobj.kvs) = 2
    /\ mres.err = UnsupportedTypeForMarshallingError
    /\ \E p \in RunsOf(mobj) : Marshal(mopts, p).err = ErrDuration

\* A map of two entries was marshalled; the run that yields the entries in the
\* other order writes other bytes of the same length.
C24_Witness ==
    /\ pc = "marshalled" /\ mres.err = "nil"
    /\ mobj.t = "map" /\ Len(mobj.kvs) = 2
    /\ \E p \in RunsOf(mobj) :
          /\ Flatten(Marshal(mopts, p).ws) # Flatten(mres.ws)
          /\ Len(Flatten(Marshal(mopts, p).ws)) = Len(Flatten(mres.ws))

----------------------------------------------------------------------------
(* C25, C26: the errors of a ReadViewer *)

\* The bytes that remained when the last read was made.
Remaining == viewer.len - viewer.last.before

\* C25: every ReadViewer read of n >= 1 bytes (ReadByte, ReadView, ReadCopy, of
\* ReadViewerForReader and of ReadViewerForBuffer) returns io.EOF when no bytes
\* remain, io.ErrUnexpectedEOF when at least one but fewer than n bytes remain,
\* also for n above the chunk size of 4096, and otherwise exactly the next n
\* bytes in order.
C25_ReadErrors ==
    (pc = "viewing" /\ viewer.last.op # "none" /\ viewer.last.n >= 1) =>
        /\ Remaining = 0 => viewer.last.err = EOF
        /\ (0 < Remaining /\ Remaining < viewer.last.n) =>
              viewer.last.err = ErrUnexpectedEOF
        /\ Remaining >= viewer.last.n =>
              /\ viewer.last.err = "nil"
              /\ viewer.last.data =
                    [i \in 1..viewer.last.n |-> (viewer.last.before + i - 1) % 256]

\* A ReadCopy of 4097 bytes from a reader holding 4096: the second chunk meets
\* the end.
C25_Witness ==
    /\ pc = "viewing" /\ viewer.kind = "reader" /\ viewer.len = readerChunkSize
    /\ viewer.last.op = "ReadCopy" /\ viewer.last.n = readerChunkSize + 1
    /\ viewer.last.before = 0
    /\ viewer.last.err = ErrUnexpectedEOF

\* A ReadView of 4097 bytes from a buffer of 4098, after one byte was read.
C25_ViewWitness ==
    /\ pc = "viewing" /\ viewer.kind = "buffer" /\ viewer.len = readerChunkSize + 2
    /\ viewer.last.op = "ReadView" /\ viewer.last.n = readerChunkSize + 1
    /\ viewer.last.before = 1
    /\ viewer.last.err = "nil" /\ Len(viewer.last.data) = readerChunkSize + 1
    /\ viewer.last.data[1] = 1 /\ viewer.pos = readerChunkSize + 2

\* C26: after a ReadView or ReadCopy call failed with io.ErrUnexpectedEOF
\* because fewer than n bytes remained, the next read of at least one byte on
\* the same ReadViewer returns io.EOF, for ReadViewerForReader and for
\* ReadViewerForBuffer.
C26_EOFAfterUnexpectedEOF ==
    (/\ pc = "viewing"
     /\ viewer.prev.op \in {"ReadView", "ReadCopy"}
     /\ viewer.prev.err = ErrUnexpectedEOF
     /\ viewer.last.n >= 1) =>
        viewer.last.err = EOF

\* The same for ReadViewerForReader alone.
C26_ReaderEOFAfterUnexpectedEOF ==
    (/\ pc = "viewing" /\ viewer.kind = "reader"
     /\ viewer.prev.op \in {"ReadView", "ReadCopy"}
     /\ viewer.prev.err = ErrUnexpectedEOF
     /\ viewer.last.n >= 1) =>
        viewer.last.err = EOF

\* The calls of TestReadViewerForBuffer_ReadView on a buffer of six bytes:
\* ReadView(2), ReadView(3), a ReadView(2) that fails with one byte left, and
\* ReadView(1), which returns that byte.
C26_BufferState ==
    /\ pc = "viewing" /\ viewer.kind = "buffer" /\ viewer.len = 6 /\ viewer.reads = 4
    /\ viewer.prev.op = "ReadView" /\ viewer.prev.n = 2 /\ viewer.prev.before = 5
    /\ viewer.prev.err = ErrUnexpectedEOF
    /\ viewer.last.op = "ReadView" /\ viewer.last.n = 1
    /\ viewer.last.err = "nil" /\ viewer.last.data = <<5>>

\* The same calls on a ReadViewerForReader end in io.EOF.
C26_ReaderState ==
    /\ pc = "viewing" /\ viewer.kind = "reader" /\ viewer.len = 6 /\ viewer.reads = 4
    /\ viewer.prev.op = "ReadView" /\ viewer.prev.n = 2 /\ viewer.prev.before = 5
    /\ viewer.prev.err = ErrUnexpectedEOF
    /\ viewer.last.op = "ReadView" /\ viewer.last.n = 1
    /\ viewer.last.err = EOF

----------------------------------------------------------------------------
(* C27: a rejected map entry is consumed *)

\* The entries of the fixmap of n entries whose first entry starts after pos
\* bytes of d, without those the permissive decoder rejects: a key that may
\* not be a map key, or a key equal to that of an entry kept before.
\* seen holds the entries kept, bytes their encodings.
RECURSIVE KeptEntries(_, _, _, _, _, _)
KeptEntries(opts, d, pos, n, seen, bytes) ==
    IF n = 0 THEN [ok |-> TRUE, count |-> Len(seen), bytes |-> bytes, end |-> pos]
    ELSE LET k == unmarshalObject(opts, d, [NewReader EXCEPT !.pos = pos])
             v == unmarshalObject(opts, d, [NewReader EXCEPT !.pos = k.rs.pos])
         IN  IF k.err # "nil" \/ v.err # "nil"
             THEN [ok |-> FALSE, count |-> 0, bytes |-> <<>>, end |-> pos]
             ELSE IF ~k.key \/ alreadyPresent(seen, k.obj)
             THEN KeptEntries(opts, d, v.rs.pos, n - 1, seen, bytes)
             ELSE KeptEntries(opts, d, v.rs.pos, n - 1, Append(seen, <<k.obj, v.obj>>),
                              bytes \o SubSeq(d, pos + 1, v.rs.pos))

\* Where the fixmap of the input starts: at its first byte, or after the
\* prefix of a two-element array that holds the map and one more value.
MapAt(d) == IF d # <<>> /\ d[1] = 146 THEN 1 ELSE 0

IsFixMapInput(d) ==
    /\ Len(d) > MapAt(d)
    /\ d[MapAt(d) + 1] \in 128..143

\* The input without its rejected entries.
WithoutRejected(opts, d) ==
    LET n == d[MapAt(d) + 1] - 128
        s == KeptEntries(opts, d, MapAt(d) + 1, n, <<>>, <<>>)
    IN  SubSeq(d, 1, MapAt(d)) \o <<128 + s.count>> \o s.bytes \o SubSeq(d, s.end + 1, Len(d))

HasRejected(opts, d) ==
    /\ KeptEntries(opts, d, MapAt(d) + 1, d[MapAt(d) + 1] - 128, <<>>, <<>>).ok
    /\ KeptEntries(opts, d, MapAt(d) + 1, d[MapAt(d) + 1] - 128, <<>>, <<>>).count
          < d[MapAt(d) + 1] - 128

\* C27: with the permissive options set, a map entry that is rejected
\* (duplicate key or key-ineligible key) still has both its key and its value
\* consumed from the input, so the later entries of the map and the data
\* after the map decode exactly as they would if the rejected entry were
\* absent.
C27_RejectedEntryConsumed ==
    (/\ pc = "unmarshalled"
     /\ uopts.DisableDuplicateKeyError /\ uopts.DisableUnsupportedKeyTypeError
     /\ IsFixMapInput(rdata)
     /\ HasRejected(uopts, rdata)) =>
        /\ ures.err = Unmarshal(uopts, WithoutRejected(uopts, rdata)).err
        /\ ures.obj = Unmarshal(uopts, WithoutRejected(uopts, rdata)).obj
        /\ ures.err = "nil" => ures.rs.pos = Len(rdata)

\* [{bin: 42, 12: 43}, 43]: the entry with the bin key is dropped, the entry
\* after it and the element after the map are decoded.
C27_Witness ==
    /\ pc = "unmarshalled"
    /\ uopts.DisableDuplicateKeyError /\ uopts.DisableUnsupportedKeyTypeError
    /\ rdata = <<146, 130, 196, 0, 42, 12, 43, 43>>
    /\ ures.err = "nil"
    /\ ures.obj = Arr(<<AnyMap(<<<<SInt("int", I64(12)), SInt("int", I64(43))>>>>),
                        SInt("int", I64(43))>>)

\* {12: 42, int8 12: 43}: a duplicate key, the first pair wins.
C27_DuplicateWitness ==
    /\ pc = "unmarshalled"
    /\ uopts.DisableDuplicateKeyError /\ uopts.DisableUnsupportedKeyTypeError
    /\ rdata = <<130, 12, 42, 208, 12, 43>>
    /\ ures.err = "nil" /\ ures.rs.pos = 6
    /\ ures.obj = AnyMap(<<<<SInt("int", I64(12)), SInt("int", I64(42))>>>>)

----------------------------------------------------------------------------
(* C28: Unmarshal consumes exactly one value *)

\* The number of bytes of the first k values written to the stream.
RECURSIVE WrittenLen(_)
WrittenLen(k) ==
    IF k = 0 THEN 0
    ELSE WrittenLen(k - 1)
            + Len(Flatten(Marshal(DefaultMarshalOptions, stream.written[k]).ws))

\* The number of calls before the i-th that returned a value.
Successes(i) == Cardinality({j \in 1..(i - 1) : stream.read[j].err = "nil"})

\* C28: a successful Unmarshal from a reader consumes exactly the bytes of the
\* one decoded value and nothing beyond them, so the values written
\* back-to-back to a stream are recovered, in order, by consecutive Unmarshal
\* calls on the same reader: a call made when a value is left returns that
\* value and leaves the reader at its end; a call made when none is left
\* returns io.EOF.
C28_ExactConsumption ==
    pc = "streaming" =>
        \A i \in DOMAIN stream.read :
            IF Successes(i) < stream.read[i].written
            THEN /\ stream.read[i].err = "nil"
                 /\ Same(stream.read[i].obj, stream.written[Successes(i) + 1])
                 /\ stream.read[i].from = WrittenLen(Successes(i))
                 /\ stream.read[i].to = WrittenLen(Successes(i) + 1)
            ELSE /\ stream.read[i].err = EOF
                 /\ stream.read[i].to = stream.read[i].from

\* An array, a string and a map were written and read back by three calls.
C28_Witness ==
    /\ pc = "streaming"
    /\ stream.written = <<Arr(<<SInt("int", I64(1)), Nil>>), Str(<<104, 105>>),
                          AnyMap(<<<<Str(<<97>>), Nil>>>>)>>
    /\ rdata = <<146, 1, 192, 162, 104, 105, 129, 161, 97, 192>>
    /\ Len(stream.read) = 3
    /\ stream.read[2].from = 3 /\ stream.read[2].to = 6 /\ stream.read[2].written = 3
    /\ stream.pos = 10

-----------------------------------------------------------------------------
(* C29: for every input byte sequence, UnmarshalBytes with default options
   returns a value or an error and never panics: each of the 256 tag
   byte values is handled by a case of the dispatch (0xc1 by
   InvalidFormatError), so the panic after the dispatch is never reached. *)

UnmarshalErrors ==
    {EOF, ErrUnexpectedEOF, InvalidFormatError, DuplicateKeyError,
     UnsupportedKeyTypeError, InvalidTimestampError}

C29_NeverPanics ==
    pc = "unmarshalled" /\ uopts = DefaultUnmarshalOptions
    => /\ ures.err # "panic: Should be unreachable!"
       /\ ures.err \in UnmarshalErrors \cup {"nil"}
       /\ (rdata # <<>> /\ rdata[1] = 193) => ures.err = InvalidFormatError
       /\ (Len(rdata) >= 2 /\ rdata[1] = 145 /\ rdata[2] = 193)
          => ures.err = InvalidFormatError

\* The reserved tag, followed by further bytes, has been decoded.
C29_Witness ==
    /\ pc = "unmarshalled" /\ uopts = DefaultUnmarshalOptions
    /\ rdata = <<193>> \o TagTail
    /\ ures.err = InvalidFormatError

\* The last tag of the dispatch (map 32), with fewer entries than announced, has been decoded.
C29_LastTagWitness ==
    /\ pc = "unmarshalled" /\ uopts = DefaultUnmarshalOptions
    /\ rdata = <<223>> \o TagTail
    /\ ures.err = EOF

----------------------------------------------------------------------------
(* C30: what a successful Marshal with late transformers leaves in the writer *)

\* A value of the built-in types all the way down.
RECURSIVE StandardValue(_)
StandardValue(obj) ==
    /\ obj.t \notin {"struct", "duration"}
    /\ \A j \in DOMAIN Children(obj) : StandardValue(Children(obj)[j])

\* The value a successful call ends up encoding: a value of the built-in types
\* as it is, any other as the late transformers return it, and the parts of a
\* container in the same way.
RECURSIVE LateValue(_, _)
LateValueOf(opts, v) ==
    CASE v.t = "array" -> Arr([j \in DOMAIN v.a |-> LateValue(opts, v.a[j])])
      [] v.t = "map" ->
            AnyMap([j \in DOMAIN v.kvs |->
                      <<LateValue(opts, v.kvs[j][1]), LateValue(opts, v.kvs[j][2])>>])
      [] OTHER -> v

LateValue(opts, obj) ==
    IF StandardValue(obj) THEN obj
    ELSE LateValueOf(opts, runTransformers(opts.LateMarshalTransformers, obj, 1).obj)

\* C30: whenever Marshal returns nil, the writer holds exactly one complete,
\* well-formed encoding of the (transformed) input value, also when the late
\* transformers rewrite a container whose first attempt failed on a nested
\* unsupported element: nothing written by the abandoned attempt precedes it.
C30_SuccessIsOneEncoding ==
    (pc = "returned" /\ mres.err = "nil") =>
        /\ MarshalToBytes(DefaultMarshalOptions, LateValue(mopts, mobj)) =
              [bytes |-> Flatten(mres.ws), err |-> "nil"]
        /\ Unmarshal(DefaultUnmarshalOptions, Flatten(mres.ws)).err = "nil"
        /\ Unmarshal(DefaultUnmarshalOptions, Flatten(mres.ws)).rs.pos = Len(Flatten(mres.ws))

\* The same for the calls in which no container was tried twice.
C30_OneEncodingWithoutRetry ==
    (pc = "returned" /\ mres.err = "nil" /\ On(Buffer, onePass(mopts, mobj)).err = "nil") =>
        /\ MarshalToBytes(DefaultMarshalOptions, LateValue(mopts, mobj)) =
              [bytes |-> Flatten(mres.ws), err |-> "nil"]
        /\ Unmarshal(DefaultUnmarshalOptions, Flatten(mres.ws)).err = "nil"
        /\ Unmarshal(DefaultUnmarshalOptions, Flatten(mres.ws)).rs.pos = Len(Flatten(mres.ws))

\* []any{struct{}{}} with a transformer that turns the structs of an array
\* into nil: Marshal succeeds and the abandoned prefix precedes the encoding.
C30_LeftoverState ==
    /\ pc = "returned" /\ mobj = Arr(<<Struct>>)
    /\ mopts.LateMarshalTransformers = <<"structsToNil">>
    /\ mres.err = "nil"
    /\ Flatten(mres.ws) = <<145, 145, 192>>

\* An element transformed on its own leaves nothing behind.
C30_ElementState ==
    /\ pc = "returned" /\ mobj = Arr(<<Struct>>)
    /\ mopts.LateMarshalTransformers = <<"structToNil">>
    /\ mres.err = "nil"
    /\ Flatten(mres.ws) = <<145, 192>>

====
